---- MODULE Spec2Model ----
(***************************************************************************)
(* Model of openhands/core/config.py: the layered configuration resolver   *)
(* (compiled defaults, config.toml document, environment variables), the   *)
(* named-group maps of the AppConfig aggregate, redaction and              *)
(* finalize_config.                                                        *)
(*                                                                         *)
(* Python values are records [t, s, n]: t is the Python type, s the text   *)
(* of a str as a sequence of tokens (so that split and replace are         *)
(* computed, and '' is <<>>), n the number of an int or bool, or the heap  *)
(* address of an instance.                                                 *)
(***************************************************************************)
EXTENDS Integers, Sequences, FiniteSets, TLC

VARIABLES
  cfg,      \* the AppConfig singleton: its maps, singleton references and scalar fields
  heap,     \* the live LLMConfig/MemoryConfig/AgentConfig/SandboxConfig/SecurityConfig instances
  singles,  \* SingletonABCMeta._instances: class name -> heap address
  warns,    \* the warnings logged: by the load so far, or by the API call that ran last
  exc,      \* the exception the operation that ran last propagated ("" when none)
  pc,       \* position in load_app_config
  toml,     \* what load_dict_from_toml returns for the config.toml of this run
  environ,  \* os.environ of this run
  result,   \* what the API call that ran last returned
  op,       \* the API call that ran last, with its arguments
  nops,     \* number of API calls made so far
  readers,  \* the threads of the serving layer inside a get call: reader -> its frame
  conversations,    \* the broker's conversations: id -> the listener ids registered on it
  broker_listeners, \* the listener ids registered on the conversation broker
  handlers  \* the websocket handler coroutines: handler -> its frame

\* the state of the serving layer
serving == <<readers, conversations, broker_listeners, handlers>>

vars == <<cfg, heap, singles, warns, exc, pc, toml, environ, result, op, nops, serving>>

-----------------------------------------------------------------------------
(* Python values *)

PyNone == [t |-> "none", s |-> <<>>, n |-> 0]
PyStr(toks) == [t |-> "str", s |-> toks, n |-> 0]
PyTok(a) == PyStr(<<a>>)
PyInt(i) == [t |-> "int", s |-> <<>>, n |-> i]
PyBool(b) == [t |-> "bool", s |-> <<>>, n |-> IF b THEN 1 ELSE 0]
PyRef(a) == [t |-> "ref", s |-> <<>>, n |-> a]
\* a dict value held in a field (only its emptiness is observed)
PyDict(a) == [t |-> "dict", s |-> <<>>, n |-> a]
UNDEFINED == [t |-> "undef", s |-> <<"UNDEFINED">>, n |-> 0]

\* bool(value), the test of "if value:"
Truthy(v) ==
  CASE v.t = "none" -> FALSE
    [] v.t = "str" -> v.s # <<>>
    [] v.t = "int" -> v.n # 0
    [] v.t = "bool" -> v.n = 1
    [] v.t = "dict" -> v.n # 0
    [] OTHER -> TRUE

\* the decimal literals int() accepts, among the tokens of the model
IntLits == {<<"0", 0>>, <<"1", 1>>, <<"5", 5>>, <<"7", 7>>, <<"9", 9>>, <<"10", 10>>}

IsIntLit(tok) == \E p \in IntLits : p[1] = tok
IntOfLit(tok) == (CHOOSE p \in IntLits : p[1] = tok)[2]
LitOfInt(i) == IF \E p \in IntLits : p[2] = i
               THEN (CHOOSE p \in IntLits : p[2] = i)[1]
               ELSE "<int>"

\* str(value)
py_str(v) ==
  CASE v.t = "str" -> v
    [] v.t = "undef" -> PyStr(v.s)
    [] v.t = "int" -> PyTok(LitOfInt(v.n))
    [] v.t = "bool" -> PyTok(IF v.n = 1 THEN "True" ELSE "False")
    [] v.t = "none" -> PyTok("None")
    [] OTHER -> PyTok("<object>")

\* str.lower(), token by token
LowerTok(tok) ==
  CASE tok \in {"TRUE", "True", "tRuE"} -> "true"
    [] tok \in {"FALSE", "False"} -> "false"
    [] tok = "None" -> "none"
    [] OTHER -> tok

py_lower(v) == PyStr([i \in 1..Len(v.s) |-> LowerTok(v.s[i])])

\* the result of a call that may raise
Ok(v) == [v |-> v, exc |-> ""]
Raise(e) == [v |-> PyNone, exc |-> e]

\* int(value)
py_int(v) ==
  CASE v.t = "int" -> Ok(v)
    [] v.t = "bool" -> Ok(PyInt(v.n))
    [] v.t = "str" \/ v.t = "undef" ->
         IF Len(v.s) = 1 /\ IsIntLit(v.s[1]) THEN Ok(PyInt(IntOfLit(v.s[1])))
         ELSE Raise("ValueError")
    [] OTHER -> Raise("TypeError")

\* t(value) for a declared member type t
Construct(type, v) ==
  CASE type = "str" -> Ok(py_str(v))
    [] type = "int" -> py_int(v)
    [] type = "bool" -> Ok(PyBool(Truthy(v)))
    [] OTHER -> Raise("ValueError")   \* dict[str, str](value) of a str

\* declared types: "T?" is the union T | None, "xref" is str | <Config> | None
IsUnion(type) == type \in {"str?", "int?", "bool?", "xref"}
NonNone(type) ==
  CASE type = "str?" -> "str"
    [] type = "int?" -> "int"
    [] type = "bool?" -> "bool"
    [] type = "xref" -> "str"

cast_value(field_type, value) ==
  IF field_type = "bool"
  THEN Ok(PyBool(py_lower(py_str(value)).s \in {<<"true">>, <<"1">>}))
  ELSE IF IsUnion(field_type)
       THEN Construct(NonNone(field_type), value)
       ELSE Construct(field_type, value)

-----------------------------------------------------------------------------
(* The declared fields of the dataclasses, in declaration order *)

Classes == {"LLMConfig", "MemoryConfig", "AgentConfig", "SecurityConfig", "SandboxConfig"}

LLM_SENSITIVE_FIELDS == {"api_key", "aws_access_key_id", "aws_secret_access_key"}

\* os.getcwd()
Cwd == <<"/", "cwd">>

FieldSeq(cls) ==
  CASE cls = "LLMConfig" -> <<"model", "api_key", "aws_access_key_id", "timeout", "drop_params">>
    [] cls = "MemoryConfig" -> <<"embedding_model", "base_url", "embedding_deployment_name", "api_key">>
    [] cls = "AgentConfig" -> <<"memory_enabled", "memory_max_threads", "llm_config", "memory_config">>
    [] cls = "SecurityConfig" -> <<"confirmation_mode", "security_analyzer">>
    [] cls = "SandboxConfig" -> <<"timeout", "use_host_network", "browsergym_eval_env">>
    [] cls = "AppConfig" -> <<"llms", "agents", "memories", "sandbox", "security",
                              "workspace_base", "workspace_mount_path", "workspace_mount_rewrite",
                              "cache_dir", "max_iterations", "e2b_api_key", "jwt_secret", "debug">>

Range(seq) == {seq[i] : i \in 1..Len(seq)}
Fields(cls) == Range(FieldSeq(cls))

FieldType(cls, f) ==
  CASE f \in {"model", "embedding_model", "workspace_base", "cache_dir",
              "e2b_api_key", "jwt_secret"} -> "str"
    [] f \in {"api_key", "aws_access_key_id", "base_url", "embedding_deployment_name",
              "security_analyzer", "browsergym_eval_env", "workspace_mount_path",
              "workspace_mount_rewrite"} -> "str?"
    [] f = "timeout" -> IF cls = "LLMConfig" THEN "int?" ELSE "int"
    [] f \in {"memory_max_threads", "max_iterations"} -> "int"
    [] f = "drop_params" -> "bool?"
    [] f \in {"memory_enabled", "confirmation_mode", "use_host_network", "debug"} -> "bool"
    [] f \in {"llm_config", "memory_config"} -> "xref"
    [] OTHER -> "dict"

FieldDefault(cls, f) ==
  CASE f = "model" -> PyTok("gpt-4o")
    [] f = "embedding_model" -> PyTok("local")
    [] f = "timeout" -> IF cls = "LLMConfig" THEN PyNone ELSE PyInt(120)
    [] f = "memory_max_threads" -> PyInt(2)
    [] f \in {"memory_enabled", "confirmation_mode", "use_host_network", "debug"} -> PyBool(FALSE)
    [] f = "workspace_base" -> PyStr(Cwd \o <<"/", "workspace">>)
    [] f = "workspace_mount_path" -> UNDEFINED
    [] f = "cache_dir" -> PyStr(<<"/", "tmp", "/", "cache">>)
    [] f = "max_iterations" -> PyInt(100)
    [] f = "e2b_api_key" -> PyStr(<<>>)
    [] f = "jwt_secret" -> PyTok("uuid4-hex")
    [] OTHER -> PyNone

\* f.name.upper()
Upper(f) ==
  CASE f = "model" -> "MODEL"
    [] f = "api_key" -> "API_KEY"
    [] f = "aws_access_key_id" -> "AWS_ACCESS_KEY_ID"
    [] f = "timeout" -> "TIMEOUT"
    [] f = "drop_params" -> "DROP_PARAMS"
    [] f = "embedding_model" -> "EMBEDDING_MODEL"
    [] f = "base_url" -> "BASE_URL"
    [] f = "embedding_deployment_name" -> "EMBEDDING_DEPLOYMENT_NAME"
    [] f = "memory_enabled" -> "MEMORY_ENABLED"
    [] f = "memory_max_threads" -> "MEMORY_MAX_THREADS"
    [] f = "llm_config" -> "LLM_CONFIG"
    [] f = "memory_config" -> "MEMORY_CONFIG"
    [] f = "confirmation_mode" -> "CONFIRMATION_MODE"
    [] f = "security_analyzer" -> "SECURITY_ANALYZER"
    [] f = "use_host_network" -> "USE_HOST_NETWORK"
    [] f = "browsergym_eval_env" -> "BROWSERGYM_EVAL_ENV"
    [] f = "workspace_base" -> "WORKSPACE_BASE"
    [] f = "workspace_mount_path" -> "WORKSPACE_MOUNT_PATH"
    [] f = "workspace_mount_rewrite" -> "WORKSPACE_MOUNT_REWRITE"
    [] f = "cache_dir" -> "CACHE_DIR"
    [] f = "max_iterations" -> "MAX_ITERATIONS"
    [] f = "e2b_api_key" -> "E2B_API_KEY"
    [] f = "jwt_secret" -> "JWT_SECRET"
    [] f = "debug" -> "DEBUG"
    [] OTHER -> "<UPPER>"

\* the names a class defines besides its fields (hasattr finds them too)
Methods(cls) ==
  {"load_from_env", "load_from_toml", "defaults_to_dict"}
    \cup (IF cls = "LLMConfig" THEN {"to_safe_dict"} ELSE {})
    \cup (IF cls = "AgentConfig" THEN {"get_llm_config", "get_memory_config"} ELSE {})
    \cup (IF cls = "AppConfig"
          THEN {"get_llm_config", "set_llm_config", "get_agent_config", "set_agent_config",
                "get_memory_config", "set_memory_config", "get_agent_configs", "defaults_dict"}
          ELSE {})

\* cls(): the __dict__ of an instance built from the field defaults
Defaults(cls) == [f \in Fields(cls) |-> FieldDefault(cls, f)]

\* dict.update / keyword override: the entries of m over those of d
Update(d, m) == [k \in DOMAIN d \cup DOMAIN m |-> IF k \in DOMAIN m THEN m[k] ELSE d[k]]

Put(d, k, v) == [x \in DOMAIN d \cup {k} |-> IF x = k THEN v ELSE d[x]]

EmptyMap == [k \in {} |-> PyNone]

\* hasattr(instance, key) on an instance of cls whose __dict__ is d
HasAttr(cls, d, key) == key \in DOMAIN d \cup Fields(cls) \cup Methods(cls)

-----------------------------------------------------------------------------
(* The parsed document: a mapping from key to entry; an entry is a scalar  *)
(* leaf or a nested table.  toml_config is [isnone, tbl]: None, or the     *)
(* top-level table.                                                        *)

Sc(v) == [isdict |-> FALSE, val |-> v, tbl |-> EmptyMap]
Tb(m) == [isdict |-> TRUE, val |-> PyNone, tbl |-> m]
TomlNone == [isnone |-> TRUE, tbl |-> EmptyMap]
TomlDict(m) == [isnone |-> FALSE, tbl |-> m]

\* the Python value of a document entry
EntryVal(e) == IF e.isdict THEN PyDict(Cardinality(DOMAIN e.tbl)) ELSE e.val

\* the scalar leaves of a table, as the flat key -> value mapping the
\* environment loaders read (no table is stored under an environment-style key)
FlatEnv(m) == [k \in {x \in DOMAIN m : ~m[x].isdict} |-> m[k].val]

-----------------------------------------------------------------------------
(* The world the operations act on: w = [cfg, heap, singles, warns, exc].  *)
(* An operation that raised leaves w.exc set; the statements after the     *)
(* raise do not run.                                                       *)

Warn(w, kind, arg) == [w EXCEPT !.warns = Append(@, <<kind, arg>>)]
Fail(w, e) == [w EXCEPT !.exc = e]

\* a new instance of cls with __dict__ d; a is its address
Alloc(w, cls, d) ==
  [w |-> [w EXCEPT !.heap = Append(@, [cls |-> cls, d |-> d])], a |-> Len(w.heap) + 1]

\* the dataclass __init__: cls(**kwargs)
New(w, cls, kwargs) ==
  IF DOMAIN kwargs \subseteq Fields(cls)
  THEN Alloc(w, cls, Update(Defaults(cls), kwargs))
  ELSE [w |-> Fail(w, "TypeError"), a |-> 0]

RECURSIVE SingletonUpdate(_, _, _, _)
\* the update of the existing instance at address a from the keyword arguments
SingletonUpdate(w, a, kwargs, keys) ==
  IF keys = {} THEN w
  ELSE LET key == CHOOSE k \in keys : TRUE
           o == w.heap[a]
           w1 == IF HasAttr(o.cls, o.d, key)
                 THEN [w EXCEPT !.heap[a].d = Put(o.d, key, kwargs[key])]
                 ELSE Warn(w, "unknown_key", key)
       IN SingletonUpdate(w1, a, kwargs, keys \ {key})

\* SingletonABCMeta.__call__: cls(**kwargs) of a singleton class creates the
\* instance on the first call and afterwards updates and returns the same one
SingletonCall(w, cls, kwargs) ==
  IF w.singles[cls] = 0
  THEN LET r == New(w, cls, kwargs)
       IN IF r.w.exc # "" THEN r
          ELSE [w |-> [r.w EXCEPT !.singles[cls] = r.a], a |-> r.a]
  ELSE [w |-> SingletonUpdate(w, w.singles[cls], kwargs, DOMAIN kwargs), a |-> w.singles[cls]]

-----------------------------------------------------------------------------
(* Environment loaders *)

EnvPrefix(cls) ==
  CASE cls = "LLMConfig" -> "LLM_"
    [] cls = "MemoryConfig" -> "MEMORY_"
    [] cls = "AgentConfig" -> "AGENT_"
    [] cls = "SecurityConfig" -> "SECURITY_"
    [] cls = "SandboxConfig" -> "SANDBOX_"
    [] OTHER -> ""

\* variant of EnvSkipped in which the Agent loader skips no field
EnvSkipped_AgentSkipsNone(cls) ==
  CASE cls = "AppConfig" -> {"llms", "agents", "memories", "sandbox", "security"}
    [] OTHER -> {}

\* the fields a loader's loop skips with "continue"
EnvSkipped(cls) ==
  CASE cls = "AgentConfig" -> {"llm_config", "memory_config"}
    [] cls = "AppConfig" -> {"llms", "agents", "memories", "sandbox", "security"}
    [] OTHER -> {}

\* variant of EnvSupplied without the "if value:" test
EnvSupplied_Present(env_dict, env_var_name) == env_var_name \in DOMAIN env_dict

\* "if env_var_name in env_dict: value = env_dict[env_var_name]; if value:"
EnvSupplied(env_dict, env_var_name) ==
  env_var_name \in DOMAIN env_dict /\ Truthy(env_dict[env_var_name])

RECURSIVE EnvLoop_NoCast(_, _, _, _)
\* variant of EnvLoop that stores the environment's string as it is
EnvLoop_NoCast(cls, env_dict, flds, r) ==
  IF flds = <<>> THEN r
  ELSE LET f == Head(flds)
           env_var_name == EnvPrefix(cls) \o Upper(f)
       IN IF f \notin EnvSkipped(cls) /\ EnvSupplied(env_dict, env_var_name)
          THEN EnvLoop_NoCast(cls, env_dict, Tail(flds),
                              [r EXCEPT !.d = Put(@, f, env_dict[env_var_name])])
          ELSE EnvLoop_NoCast(cls, env_dict, Tail(flds), r)

RECURSIVE EnvLoop(_, _, _, _)
\* "for f in fields(cls)" of a domain kind's load_from_env over the fields
\* flds still to visit; r = [d, exc] is config.__dict__ and the exception raised
EnvLoop(cls, env_dict, flds, r) ==
  IF flds = <<>> \/ r.exc # "" THEN r
  ELSE LET f == Head(flds)
           env_var_name == EnvPrefix(cls) \o Upper(f)
       IN IF f \notin EnvSkipped(cls) /\ EnvSupplied(env_dict, env_var_name)
          THEN LET c == cast_value(FieldType(cls, f), env_dict[env_var_name])
               IN IF c.exc # ""
                  THEN [r EXCEPT !.exc = c.exc]
                  ELSE EnvLoop(cls, env_dict, Tail(flds), [r EXCEPT !.d = Put(@, f, c.v)])
          ELSE EnvLoop(cls, env_dict, Tail(flds), r)

\* "return config" of a domain kind's load_from_env, or the cast's exception
EnvResult(w, cls, r) ==
  IF r.exc # "" THEN [w |-> Fail(w, r.exc), a |-> 0]
  ELSE Alloc(w, cls, r.d)

\* load_from_env of LLMConfig, MemoryConfig and AgentConfig: config = cls() is a
\* new instance; the result is [w, a]
KindLoadFromEnv(w, cls, env_dict) ==
  IF w.exc # "" THEN [w |-> w, a |-> 0]
  ELSE EnvResult(w, cls, EnvLoop(cls, env_dict, FieldSeq(cls), [d |-> Defaults(cls), exc |-> ""]))

LLMConfig_load_from_env(w, env_dict) == KindLoadFromEnv(w, "LLMConfig", env_dict)
MemoryConfig_load_from_env(w, env_dict) == KindLoadFromEnv(w, "MemoryConfig", env_dict)
AgentConfig_load_from_env(w, env_dict) == KindLoadFromEnv(w, "AgentConfig", env_dict)

\* the singleton s = [w, a] after the loop of its load_from_env ended as r:
\* its fields were set in place until a cast raised
SingletonEnvResult(s, r) ==
  IF r.exc # ""
  THEN [w |-> Fail([s.w EXCEPT !.heap[s.a].d = r.d], r.exc), a |-> 0]
  ELSE [w |-> [s.w EXCEPT !.heap[s.a].d = r.d], a |-> s.a]

SingletonEnvLoop(s, cls, env_dict) ==
  SingletonEnvResult(s, EnvLoop(cls, env_dict, FieldSeq(cls),
                                [d |-> s.w.heap[s.a].d, exc |-> ""]))

\* variant of SingletonLoadFromEnv whose config = cls() builds a new instance
\* at every call
SingletonLoadFromEnv_NewInstance(w, cls, env_dict) ==
  IF w.exc # "" THEN [w |-> w, a |-> 0]
  ELSE SingletonEnvLoop(New(w, cls, EmptyMap), cls, env_dict)

\* load_from_env of SandboxConfig and SecurityConfig: config = cls() is the
\* singleton
SingletonLoadFromEnv(w, cls, env_dict) ==
  IF w.exc # "" THEN [w |-> w, a |-> 0]
  ELSE SingletonEnvLoop(SingletonCall(w, cls, EmptyMap), cls, env_dict)

SandboxConfig_load_from_env(w, env_dict) == SingletonLoadFromEnv(w, "SandboxConfig", env_dict)
SecurityConfig_load_from_env(w, env_dict) == SingletonLoadFromEnv(w, "SecurityConfig", env_dict)

RECURSIVE AppEnvLoop(_, _, _)
\* the loop over the AppConfig fields in AppConfig.load_from_env: a ValueError
\* of the cast is logged and the loop goes on; any other exception propagates
AppEnvLoop(w, env_dict, flds) ==
  IF flds = <<>> \/ w.exc # "" THEN w
  ELSE LET f == Head(flds)
           env_var_name == Upper(f)
       IN IF f \notin EnvSkipped("AppConfig") /\ EnvSupplied(env_dict, env_var_name)
          THEN LET c == cast_value(FieldType("AppConfig", f), env_dict[env_var_name])
               IN IF c.exc = ""
                  THEN AppEnvLoop([w EXCEPT !.cfg.f = Put(@, f, c.v)], env_dict, Tail(flds))
                  ELSE IF c.exc = "ValueError"
                       THEN AppEnvLoop(Warn(w, "error_setting", f), env_dict, Tail(flds))
                       ELSE Fail(w, c.exc)
          ELSE AppEnvLoop(w, env_dict, Tail(flds))

\* variant of StoreGroup that makes the new instance the only group of the map
StoreGroup_Only(r, mapname, key) ==
  IF r.w.exc # "" THEN r.w
  ELSE CASE mapname = "llms" -> [r.w EXCEPT !.cfg.llms = Put(EmptyMap, key, r.a)]
         [] mapname = "agents" -> [r.w EXCEPT !.cfg.agents = Put(EmptyMap, key, r.a)]
         [] mapname = "memories" -> [r.w EXCEPT !.cfg.memories = Put(EmptyMap, key, r.a)]

\* config.<map>[key] = r.a and config.<singleton> = r.a, for the result
\* r = [w, a] of a loader that did not raise
StoreGroup(r, mapname, key) ==
  IF r.w.exc # "" THEN r.w
  ELSE CASE mapname = "llms" -> [r.w EXCEPT !.cfg.llms = Put(@, key, r.a)]
         [] mapname = "agents" -> [r.w EXCEPT !.cfg.agents = Put(@, key, r.a)]
         [] mapname = "memories" -> [r.w EXCEPT !.cfg.memories = Put(@, key, r.a)]

StoreSingleton(r, attr) ==
  IF r.w.exc # "" THEN r.w
  ELSE CASE attr = "sandbox" -> [r.w EXCEPT !.cfg.sandbox = r.a]
         [] attr = "security" -> [r.w EXCEPT !.cfg.security = r.a]

\* "Load sub-configs" of AppConfig.load_from_env: the five assignments, the
\* first innermost
AppEnvSubConfigs(w, env_dict) ==
  StoreSingleton(SecurityConfig_load_from_env(
    StoreSingleton(SandboxConfig_load_from_env(
      StoreGroup(MemoryConfig_load_from_env(
        StoreGroup(AgentConfig_load_from_env(
          StoreGroup(LLMConfig_load_from_env(w, env_dict), "llms", "llm"),
          env_dict), "agents", "agent"),
        env_dict), "memories", "memory"),
      env_dict), "sandbox"),
    env_dict), "security")

\* AppConfig.load_from_env: config = cls() is the AppConfig singleton
AppConfig_load_from_env(w, env_dict) ==
  IF w.exc # "" THEN w
  ELSE AppEnvSubConfigs(AppEnvLoop(w, env_dict, FieldSeq("AppConfig")), env_dict)

-----------------------------------------------------------------------------
(* Document loaders *)

DefaultKey(cls) ==
  CASE cls = "LLMConfig" -> "llm"
    [] cls = "MemoryConfig" -> "memory"
    [] cls = "AgentConfig" -> "agent"

\* toml_config.get(key, {}): the section as a table ([ok, tbl]); a scalar
\* stored under the key has no .items()
GetSection(toml_config, key) ==
  IF key \notin DOMAIN toml_config.tbl THEN [ok |-> TRUE, tbl |-> EmptyMap]
  ELSE IF toml_config.tbl[key].isdict THEN [ok |-> TRUE, tbl |-> toml_config.tbl[key].tbl]
       ELSE [ok |-> FALSE, tbl |-> EmptyMap]

\* {k: v for k, v in section.items() if not isinstance(v, dict)}
NonDictFields(section) == [k \in {x \in DOMAIN section : ~section[x].isdict} |-> section[k].val]

\* the keys of the loop "if key != default_key and isinstance(value, dict)"
GroupKeys(cls, section) == {k \in DOMAIN section : k # DefaultKey(cls) /\ section[k].isdict}

\* variant of CustomDict that starts from the declared defaults of the class
CustomDict_FromDefaults(cls, default_d, value) ==
  Update(Defaults(cls), [k \in DOMAIN value |-> EntryVal(value[k])])

\* custom_config = cls(**default_config.__dict__); custom_config.__dict__.update(value)
CustomDict(cls, default_d, value) ==
  Update(default_d, [k \in DOMAIN value |-> EntryVal(value[k])])

RECURSIVE CustomConfigs_SharesDefault(_, _, _, _, _)
\* variant of CustomConfigs without the copy: custom_config = default_config
CustomConfigs_SharesDefault(r, cls, section, default_d, keys) ==
  IF keys = {} THEN r
  ELSE LET key == CHOOSE k \in keys : TRUE
           a == r.m[DefaultKey(cls)]
       IN CustomConfigs_SharesDefault(
            [w |-> [r.w EXCEPT !.heap[a].d = CustomDict(cls, @, section[key].tbl)],
             m |-> Put(r.m, key, a)],
            cls, section, default_d, keys \ {key})

RECURSIVE CustomConfigs(_, _, _, _, _)
\* the loop over the named groups of a section; r = [w, m], m the mapping built so far
CustomConfigs(r, cls, section, default_d, keys) ==
  IF keys = {} THEN r
  ELSE LET key == CHOOSE k \in keys : TRUE
           c == Alloc(r.w, cls, CustomDict(cls, default_d, section[key].tbl))
       IN CustomConfigs([w |-> c.w, m |-> Put(r.m, key, c.a)], cls, section, default_d,
                        keys \ {key})

\* load_from_toml of LLMConfig, MemoryConfig and AgentConfig; the result is
\* [w, m], m the mapping from group name to the address of its instance
KindLoadFromToml(w, cls, toml_config) ==
  IF w.exc # "" THEN [w |-> w, m |-> EmptyMap]
  ELSE IF toml_config.isnone
  THEN LET c == New(w, cls, EmptyMap)
       IN [w |-> c.w, m |-> Put(EmptyMap, DefaultKey(cls), c.a)]
  ELSE LET sec == GetSection(toml_config, DefaultKey(cls))
           default_config == New(w, cls, NonDictFields(sec.tbl))
       IN IF ~sec.ok THEN [w |-> Fail(w, "AttributeError"), m |-> EmptyMap]
          ELSE IF default_config.w.exc # "" THEN [w |-> default_config.w, m |-> EmptyMap]
          ELSE CustomConfigs([w |-> default_config.w,
                              m |-> Put(EmptyMap, DefaultKey(cls), default_config.a)],
                             cls, sec.tbl, default_config.w.heap[default_config.a].d,
                             GroupKeys(cls, sec.tbl))

LLMConfig_load_from_toml(w, toml_config) == KindLoadFromToml(w, "LLMConfig", toml_config)
MemoryConfig_load_from_toml(w, toml_config) == KindLoadFromToml(w, "MemoryConfig", toml_config)
AgentConfig_load_from_toml(w, toml_config) == KindLoadFromToml(w, "AgentConfig", toml_config)

\* SecurityConfig.load_from_toml
SecurityConfig_load_from_toml(w, toml_config) ==
  IF w.exc # "" THEN [w |-> w, a |-> 0]
  ELSE IF toml_config.isnone \/ "security" \notin DOMAIN toml_config.tbl
  THEN SingletonCall(w, "SecurityConfig", EmptyMap)
  ELSE IF ~toml_config.tbl["security"].isdict
       THEN [w |-> Fail(w, "TypeError"), a |-> 0]
       ELSE SingletonCall(w, "SecurityConfig",
                          [k \in DOMAIN toml_config.tbl["security"].tbl |->
                             EntryVal(toml_config.tbl["security"].tbl[k])])

\* the attribute and key names str operations are computed over
KeyNames ==
  UNION {Fields(c) \cup Methods(c) : c \in Classes \cup {"AppConfig"}}
    \cup {"bogus", "sandbox_timeout", "sandbox_use_host_network", "sandbox_bogus",
          "sandbox_load_from_env", "sandbox_sandbox_timeout"}

\* key.startswith('sandbox_')
StartsWithSandbox(key) == \E x \in KeyNames : key = "sandbox_" \o x

RECURSIVE ReplaceSandbox(_)
\* key.replace('sandbox_', ''): every occurrence is removed
ReplaceSandbox(key) ==
  IF StartsWithSandbox(key)
  THEN ReplaceSandbox(CHOOSE x \in KeyNames : key = "sandbox_" \o x)
  ELSE key

RECURSIVE MigrateLoop(_, _, _, _)
\* "for key in keys_to_migrate" on the sandbox singleton at address a
MigrateLoop(w, a, core_config, keys) ==
  IF keys = {} THEN w
  ELSE LET key == CHOOSE k \in keys : TRUE
           new_key == ReplaceSandbox(key)
           o == w.heap[a]
           w1 == IF HasAttr(o.cls, o.d, new_key)
                 THEN [w EXCEPT !.heap[a].d = Put(o.d, new_key, EntryVal(core_config[key]))]
                 ELSE Warn(w, "unknown_sandbox_config", key)
       IN MigrateLoop(w1, a, core_config, keys \ {key})

\* "First, migrate old sandbox configs from [core] section", on the
\* singleton s = [w, a]
MigrateCore(s, toml_config) ==
  IF "core" \in DOMAIN toml_config.tbl
  THEN [w |-> MigrateLoop(s.w, s.a, toml_config.tbl["core"].tbl,
                          {k \in DOMAIN toml_config.tbl["core"].tbl : StartsWithSandbox(k)}),
        a |-> s.a]
  ELSE s

\* "Then, override with new-style [sandbox] section if it exists"
SandboxSection(s, toml_config) ==
  IF "sandbox" \in DOMAIN toml_config.tbl /\ toml_config.tbl["sandbox"].isdict
  THEN SingletonCall(s.w, "SandboxConfig",
                     [k \in DOMAIN toml_config.tbl["sandbox"].tbl |->
                        EntryVal(toml_config.tbl["sandbox"].tbl[k])])
  ELSE s

\* variant of SandboxConfig.load_from_toml that applies the sandbox section
\* before it migrates the keys of the core section
SandboxConfig_load_from_toml_SectionFirst(w, toml_config) ==
  IF w.exc # "" THEN [w |-> w, a |-> 0]
  ELSE IF toml_config.isnone THEN SingletonCall(w, "SandboxConfig", EmptyMap)
  ELSE MigrateCore(SandboxSection(SingletonCall(w, "SandboxConfig", EmptyMap), toml_config),
                   toml_config)

\* SandboxConfig.load_from_toml
SandboxConfig_load_from_toml(w, toml_config) ==
  IF w.exc # "" THEN [w |-> w, a |-> 0]
  ELSE IF toml_config.isnone THEN SingletonCall(w, "SandboxConfig", EmptyMap)
  ELSE SandboxSection(MigrateCore(SingletonCall(w, "SandboxConfig", EmptyMap), toml_config),
                      toml_config)

\* variant of CoreLoop that warns about every key and sets none
CoreLoop_SetsNothing(w, core, keys) ==
  IF keys = {} THEN w
  ELSE Warn(w, "unknown_core_key", CHOOSE k \in keys : TRUE)

RECURSIVE CoreLoop(_, _, _)
\* "for key, value in toml_config['core'].items()" of AppConfig.load_from_toml
\* (the documents of the model store scalar fields only under core)
CoreLoop(w, core, keys) ==
  IF keys = {} THEN w
  ELSE LET key == CHOOSE k \in keys : TRUE
           w1 == IF HasAttr("AppConfig", w.cfg.f, key)
                 THEN [w EXCEPT !.cfg.f = Put(@, key, EntryVal(core[key]))]
                 ELSE Warn(w, "unknown_core_key", key)
       IN CoreLoop(w1, core, keys \ {key})

RECURSIVE UnknownKeys(_, _)
\* the closing loop of AppConfig.load_from_toml over the top-level keys
UnknownKeys(w, keys) ==
  IF keys = {} THEN w
  ELSE LET key == CHOOSE k \in keys : TRUE
       IN UnknownKeys(IF key \in {"core", "llm", "agent", "memory", "sandbox", "security"}
                      THEN w ELSE Warn(w, "unknown_key_in_config", key),
                      keys \ {key})

\* variant of UpdateGroups that replaces the map: config.<map> = r.m
UpdateGroups_Replaces(r, mapname) ==
  IF r.w.exc # "" THEN r.w
  ELSE CASE mapname = "llms" -> [r.w EXCEPT !.cfg.llms = r.m]
         [] mapname = "agents" -> [r.w EXCEPT !.cfg.agents = r.m]
         [] mapname = "memories" -> [r.w EXCEPT !.cfg.memories = r.m]

\* config.<map>.update(r.m), for the result r = [w, m] of a loader that did
\* not raise
UpdateGroups(r, mapname) ==
  IF r.w.exc # "" THEN r.w
  ELSE CASE mapname = "llms" -> [r.w EXCEPT !.cfg.llms = Update(@, r.m)]
         [] mapname = "agents" -> [r.w EXCEPT !.cfg.agents = Update(@, r.m)]
         [] mapname = "memories" -> [r.w EXCEPT !.cfg.memories = Update(@, r.m)]

\* variant of UpdateGroups in which the entries the map holds win over the
\* loaded ones: config.<map> = {**r.m, **config.<map>}
UpdateGroups_KeepsHeld(r, mapname) ==
  IF r.w.exc # "" THEN r.w
  ELSE CASE mapname = "llms" -> [r.w EXCEPT !.cfg.llms = Update(r.m, @)]
         [] mapname = "agents" -> [r.w EXCEPT !.cfg.agents = Update(r.m, @)]
         [] mapname = "memories" -> [r.w EXCEPT !.cfg.memories = Update(r.m, @)]

\* variant of TomlSubConfigs that keeps the groups the aggregate holds
TomlSubConfigs_KeepsHeld(w, toml_config) ==
  StoreSingleton(SecurityConfig_load_from_toml(
    StoreSingleton(SandboxConfig_load_from_toml(
      UpdateGroups_KeepsHeld(MemoryConfig_load_from_toml(
        UpdateGroups_KeepsHeld(AgentConfig_load_from_toml(
          UpdateGroups_KeepsHeld(LLMConfig_load_from_toml(w, toml_config), "llms"),
          toml_config), "agents"),
        toml_config), "memories"),
      toml_config), "sandbox"),
    toml_config), "security")

\* "Load and override other configs" of AppConfig.load_from_toml: the five
\* statements, the first innermost
TomlSubConfigs(w, toml_config) ==
  StoreSingleton(SecurityConfig_load_from_toml(
    StoreSingleton(SandboxConfig_load_from_toml(
      UpdateGroups(MemoryConfig_load_from_toml(
        UpdateGroups(AgentConfig_load_from_toml(
          UpdateGroups(LLMConfig_load_from_toml(w, toml_config), "llms"),
          toml_config), "agents"),
        toml_config), "memories"),
      toml_config), "sandbox"),
    toml_config), "security")

\* the first two blocks of AppConfig.load_from_toml: the env-style load of a
\* document without a core section, else the loop over the core section
TomlCore(w, toml_config) ==
  IF "core" \notin DOMAIN toml_config.tbl
  THEN AppConfig_load_from_env(w, FlatEnv(toml_config.tbl))
  ELSE IF ~toml_config.tbl["core"].isdict THEN Fail(w, "AttributeError")
       ELSE CoreLoop(w, toml_config.tbl["core"].tbl, DOMAIN toml_config.tbl["core"].tbl)

\* "Log warnings for unknown keys"
TomlUnknownKeys(w, toml_config) ==
  IF w.exc # "" THEN w ELSE UnknownKeys(w, DOMAIN toml_config.tbl)

\* AppConfig.load_from_toml: config = cls() is the AppConfig singleton
AppConfig_load_from_toml(w, toml_config) ==
  IF w.exc # "" \/ toml_config.isnone THEN w
  ELSE TomlUnknownKeys(TomlSubConfigs(TomlCore(w, toml_config), toml_config), toml_config)

-----------------------------------------------------------------------------
(* Accessors of the aggregate.  A name is a Python value: a str of one     *)
(* token (the group name) or None.                                         *)

NameIn(name, m) == name.t = "str" /\ Len(name.s) = 1 /\ name.s[1] \in DOMAIN m

\* AppConfig.get_llm_config; the result is [w, a]
get_llm_config(w, name) ==
  IF NameIn(name, w.cfg.llms) THEN [w |-> w, a |-> w.cfg.llms[name.s[1]]]
  ELSE LET w1 == IF name # PyNone /\ name # PyTok("llm")
                 THEN Warn(w, "llm_group_not_found", py_str(name).s[1])
                 ELSE w
           c == New(w1, "LLMConfig", EmptyMap)
       IN IF "llm" \notin DOMAIN w1.cfg.llms
          THEN [w |-> [c.w EXCEPT !.cfg.llms = Put(@, "llm", c.a)], a |-> c.a]
          ELSE [w |-> w1, a |-> w1.cfg.llms["llm"]]

\* variant of get_memory_config whose fallback builds a new instance at every call
get_memory_config_NewEachTime(w, name) ==
  IF NameIn(name, w.cfg.memories) THEN [w |-> w, a |-> w.cfg.memories[name.s[1]]]
  ELSE New(w, "MemoryConfig", EmptyMap)

\* AppConfig.get_memory_config
get_memory_config(w, name) ==
  IF NameIn(name, w.cfg.memories) THEN [w |-> w, a |-> w.cfg.memories[name.s[1]]]
  ELSE LET w1 == IF name # PyNone /\ name # PyTok("memory")
                 THEN Warn(w, "memory_group_not_found", py_str(name).s[1])
                 ELSE w
           c == New(w1, "MemoryConfig", EmptyMap)
       IN IF "memory" \notin DOMAIN w1.cfg.memories
          THEN [w |-> [c.w EXCEPT !.cfg.memories = Put(@, "memory", c.a)], a |-> c.a]
          ELSE [w |-> w1, a |-> w1.cfg.memories["memory"]]

\* AppConfig.get_agent_config
get_agent_config(w, name) ==
  IF NameIn(name, w.cfg.agents) THEN [w |-> w, a |-> w.cfg.agents[name.s[1]]]
  ELSE LET c == New(w, "AgentConfig", EmptyMap)
       IN IF "agent" \notin DOMAIN w.cfg.agents
          THEN [w |-> [c.w EXCEPT !.cfg.agents = Put(@, "agent", c.a)], a |-> c.a]
          ELSE [w |-> w, a |-> w.cfg.agents["agent"]]

\* isinstance(x, cls) for the value x of a cross-reference field
IsInstance(w, x, cls) == x.t = "ref" /\ w.heap[x.n].cls = cls

\* variant of AgentConfig.get_llm_config without the isinstance branch
AgentConfig_get_llm_config_NoInline(w, a) ==
  IF w.heap[a].d["llm_config"].t = "str"
  THEN get_llm_config(w, w.heap[a].d["llm_config"])
  ELSE get_llm_config(w, PyTok("llm"))

\* AgentConfig.get_llm_config(app_config) of the agent at address a
AgentConfig_get_llm_config(w, a) ==
  IF IsInstance(w, w.heap[a].d["llm_config"], "LLMConfig")
  THEN [w |-> w, a |-> w.heap[a].d["llm_config"].n]
  ELSE IF w.heap[a].d["llm_config"].t = "str"
  THEN get_llm_config(w, w.heap[a].d["llm_config"])
  ELSE get_llm_config(w, PyTok("llm"))

\* AgentConfig.get_memory_config(app_config) of the agent at address a
AgentConfig_get_memory_config(w, a) ==
  IF IsInstance(w, w.heap[a].d["memory_config"], "MemoryConfig")
  THEN [w |-> w, a |-> w.heap[a].d["memory_config"].n]
  ELSE IF w.heap[a].d["memory_config"].t = "str"
  THEN get_memory_config(w, w.heap[a].d["memory_config"])
  ELSE get_memory_config(w, PyTok("memory"))

\* the agent_config of get_llm_config_from_agent, as [w, a], resolved
ResolveLLM(r) == AgentConfig_get_llm_config(r.w, r.a)
ResolveMemory(r) == AgentConfig_get_memory_config(r.w, r.a)

\* AppConfig.get_llm_config_from_agent, get_memory_config_from_agent
get_llm_config_from_agent(w, name) == ResolveLLM(get_agent_config(w, name))
get_memory_config_from_agent(w, name) == ResolveMemory(get_agent_config(w, name))

\* get(kind, name)
GetConfig(w, cls, name) ==
  CASE cls = "LLMConfig" -> get_llm_config(w, name)
    [] cls = "MemoryConfig" -> get_memory_config(w, name)
    [] cls = "AgentConfig" -> get_agent_config(w, name)

\* variant of set_llm_config that keeps an entry the map already has
set_llm_config_KeepsExisting(w, value, name) ==
  IF name \in DOMAIN w.cfg.llms THEN w ELSE [w EXCEPT !.cfg.llms = Put(@, name, value)]

\* AppConfig.set_llm_config, set_memory_config, set_agent_config
set_llm_config(w, value, name) == [w EXCEPT !.cfg.llms = Put(@, name, value)]
set_memory_config(w, value, name) == [w EXCEPT !.cfg.memories = Put(@, name, value)]
set_agent_config(w, value, name) == [w EXCEPT !.cfg.agents = Put(@, name, value)]

SetConfig(w, cls, value, name) ==
  CASE cls = "LLMConfig" -> set_llm_config(w, value, name)
    [] cls = "MemoryConfig" -> set_memory_config(w, value, name)
    [] cls = "AgentConfig" -> set_agent_config(w, value, name)

MapOf(c, cls) ==
  CASE cls = "LLMConfig" -> c.llms
    [] cls = "MemoryConfig" -> c.memories
    [] cls = "AgentConfig" -> c.agents

-----------------------------------------------------------------------------
(* Redaction and display *)

MASK == PyTok("******")

\* variant of Masked that shows the mask for an empty value too
Masked_Always(v) == MASK

\* '******' if v else None
Masked(v) == IF Truthy(v) THEN MASK ELSE PyNone

\* variant of to_safe_dict that masks self.__dict__ itself instead of a copy
to_safe_dict_InPlace(w, a) ==
  LET ret == [k \in DOMAIN w.heap[a].d |->
                IF k \in LLM_SENSITIVE_FIELDS THEN Masked(w.heap[a].d[k]) ELSE w.heap[a].d[k]]
  IN [w |-> [w EXCEPT !.heap[a].d = ret], v |-> ret]

\* LLMConfig.to_safe_dict on the instance at address a; the result is [w, v]:
\* ret is a copy of __dict__, and the instance is not written
to_safe_dict(w, a) ==
  LET ret == w.heap[a].d
  IN [w |-> w,
      v |-> [k \in DOMAIN ret |-> IF k \in LLM_SENSITIVE_FIELDS THEN Masked(ret[k]) ELSE ret[k]]]

\* the names AppConfig.__str__ masks
APP_MASKED_FIELDS == {"e2b_api_key", "github_token", "jwt_secret"}

\* the text __str__ builds, as the set of its "path=repr(value)" parts: a part
\* is <<path, value>>, path the field names and group names leading to it
RECURSIVE InstanceStr(_, _, _)
\* BaseConfig.__str__ (MemoryConfig, AgentConfig, SandboxConfig, SecurityConfig)
\* and LLMConfig.__str__ of the instance at address a; an instance held in a
\* field is shown by its own __repr__
InstanceStr(hp, a, path) ==
  LET o == hp[a]
      attr_value(f) == IF o.cls = "LLMConfig" /\ f \in LLM_SENSITIVE_FIELDS
                       THEN Masked(o.d[f]) ELSE o.d[f]
  IN UNION {IF attr_value(f).t = "ref"
            THEN InstanceStr(hp, attr_value(f).n, Append(path, f))
            ELSE {<<Append(path, f), attr_value(f)>>} : f \in Fields(o.cls)}

BaseConfig_str(w, a) == InstanceStr(w.heap, a, <<>>)

\* AppConfig.__str__: the maps and singletons are shown by the __repr__ of
\* their instances
AppConfig_str(w) ==
  LET c == w.cfg
      Group(mapname, m) ==
        UNION {InstanceStr(w.heap, m[k], <<mapname, k>>) : k \in DOMAIN m}
  IN Group("llms", c.llms) \cup Group("agents", c.agents) \cup Group("memories", c.memories)
       \cup InstanceStr(w.heap, c.sandbox, <<"sandbox">>)
       \cup InstanceStr(w.heap, c.security, <<"security">>)
       \cup {<<<<f>>, IF f \in APP_MASKED_FIELDS THEN Masked(c.f[f]) ELSE c.f[f]>> :
               f \in Fields("AppConfig") \ EnvSkipped("AppConfig")}

-----------------------------------------------------------------------------
(* finalize_config *)

\* variant of abspath that returns the path as it is given
abspath_AsGiven(v) ==
  IF v.t \notin {"str", "undef"} THEN Raise("TypeError")
  ELSE Ok(PyStr(v.s))

\* os.path.abspath of a normalized path
abspath(v) ==
  IF v.t \notin {"str", "undef"} THEN Raise("TypeError")
  ELSE IF Len(v.s) > 0 /\ v.s[1] = "/" THEN Ok(PyStr(v.s))
  ELSE IF v.s = <<>> THEN Ok(PyStr(Cwd))
  ELSE Ok(PyStr(Cwd \o <<"/">> \o v.s))

RECURSIVE py_split(_, _)
\* str.split(sep): the pieces between the occurrences of the token sep
py_split(s, sep) ==
  IF \E i \in 1..Len(s) : s[i] = sep
  THEN LET i == CHOOSE i \in 1..Len(s) : s[i] = sep /\ \A j \in 1..(i - 1) : s[j] # sep
       IN <<SubSeq(s, 1, i - 1)>> \o py_split(SubSeq(s, i + 1, Len(s)), sep)
  ELSE <<s>>

RECURSIVE py_replace(_, _, _)
\* str.replace(old, new): every occurrence of old, left to right
py_replace(s, old, new) ==
  IF old = <<>>
  THEN IF s = <<>> THEN new ELSE new \o <<s[1]>> \o py_replace(Tail(s), old, new)
  ELSE IF Len(s) < Len(old) THEN s
  ELSE IF SubSeq(s, 1, Len(old)) = old
       THEN new \o py_replace(SubSeq(s, Len(old) + 1, Len(s)), old, new)
       ELSE <<s[1]>> \o py_replace(Tail(s), old, new)

\* platform.system() of the host
platform_system == "Linux"

\* variant of MountPath that takes the absolute base path whatever the loads set
MountPath_AlwaysBase(f, ab) == ab

\* "if cfg.workspace_mount_path is UndefinedString.UNDEFINED:
\*      cfg.workspace_mount_path = os.path.abspath(cfg.workspace_base)"
MountPath(f, ab) ==
  IF f.workspace_mount_path = UNDEFINED THEN ab ELSE f.workspace_mount_path

\* variant of FinalizePaths that applies the rewrite rule to the mount path
\* instead of the base path
FinalizePaths_RewriteMount(w) ==
  LET f == w.cfg.f
      ab == abspath(f.workspace_base)
      mount == MountPath(f, ab.v)
      w1 == [w EXCEPT !.cfg.f = Update(@, [workspace_mount_path |-> mount,
                                           workspace_base |-> ab.v])]
      rw == f.workspace_mount_rewrite
      parts == py_split(rw.s, ":")
  IN IF ab.exc # "" THEN Fail(w, ab.exc)
     ELSE IF ~Truthy(rw) THEN w1
     ELSE IF rw.t # "str" \/ mount.t # "str" THEN Fail(w1, "AttributeError")
     ELSE IF Len(parts) < 2 THEN Fail(w1, "IndexError")
     ELSE [w1 EXCEPT !.cfg.f = Put(@, "workspace_mount_path",
                                   PyStr(py_replace(mount.s, parts[1], parts[2])))]

\* the workspace path statements of finalize_config
FinalizePaths(w) ==
  LET f == w.cfg.f
      ab == abspath(f.workspace_base)
      mount == MountPath(f, ab.v)
      w1 == [w EXCEPT !.cfg.f = Update(@, [workspace_mount_path |-> mount,
                                           workspace_base |-> ab.v])]
      rw == f.workspace_mount_rewrite
      base == IF Truthy(ab.v) THEN ab.v ELSE PyStr(Cwd)
      parts == py_split(rw.s, ":")
  IN IF ab.exc # "" THEN Fail(w, ab.exc)
     ELSE IF ~Truthy(rw) THEN w1
     ELSE IF rw.t # "str" THEN Fail(w1, "AttributeError")
     ELSE IF Len(parts) < 2 THEN Fail(w1, "IndexError")
     ELSE [w1 EXCEPT !.cfg.f = Put(@, "workspace_mount_path",
                                   PyStr(py_replace(base.s, parts[1], parts[2])))]

\* "if hasattr(default_llm, name): default_memory.<target> = getattr(default_llm, name)"
\* with its deprecation warning; la and ma are the addresses of the two instances
CopyLegacy(w, la, ma, name, target) ==
  IF HasAttr("LLMConfig", w.heap[la].d, name)
  THEN Warn([w EXCEPT !.heap[ma].d = Put(@, target, w.heap[la].d[name])], "deprecated", name)
  ELSE w

\* the same for embedding_deployment_name, only when the memory config has none
CopyDeployment(w, la, ma) ==
  IF w.heap[ma].d["embedding_deployment_name"] = PyNone
  THEN CopyLegacy(w, la, ma, "embedding_deployment_name", "embedding_deployment_name")
  ELSE w

\* the three compatibility statements on the default groups l = [w, a], m = [w, a]
EmbeddingShim(l, m) ==
  CopyDeployment(CopyLegacy(CopyLegacy(m.w, l.a, m.a, "embedding_base_url", "base_url"),
                            l.a, m.a, "embedding_model", "embedding_model"),
                 l.a, m.a)

DefaultMemoryAfter(l) == EmbeddingShim(l, get_memory_config(l.w, PyTok("memory")))

\* "default_llm = cfg.get_llm_config(); default_memory = cfg.get_memory_config()"
\* and the compatibility statements
FinalizeEmbedding(w) ==
  IF w.exc # "" THEN w ELSE DefaultMemoryAfter(get_llm_config(w, PyTok("llm")))

\* the host network advisory
FinalizeHostNetwork(w) ==
  IF w.exc = "" /\ Truthy(w.heap[w.cfg.sandbox].d["use_host_network"])
     /\ platform_system = "Darwin"
  THEN Warn(w, "host_network_macos", "") ELSE w

\* "make sure cache dir exists"; mkdir_ok says whether pathlib's mkdir succeeds
FinalizeCacheDir(w, mkdir_ok) ==
  IF w.exc = "" /\ Truthy(w.cfg.f["cache_dir"]) /\ ~mkdir_ok THEN Fail(w, "OSError") ELSE w

\* variant of finalize_config without the workspace path statements
finalize_config_NoPaths(w, mkdir_ok) ==
  FinalizeCacheDir(FinalizeHostNetwork(FinalizeEmbedding(w)), mkdir_ok)

\* finalize_config(cfg)
finalize_config(w, mkdir_ok) ==
  FinalizeCacheDir(FinalizeHostNetwork(FinalizeEmbedding(FinalizePaths(w))), mkdir_ok)

-----------------------------------------------------------------------------
(* load_dict_from_toml and load_app_config *)

\* variant of load_dict_from_toml without the two except clauses
load_dict_from_toml_Uncaught(w, file) ==
  CASE file.state = "missing" -> [w |-> Fail(w, "FileNotFoundError"), v |-> TomlNone]
    [] file.state = "malformed" -> [w |-> Fail(w, "TomlDecodeError"), v |-> TomlNone]
    [] OTHER -> [w |-> w, v |-> TomlDict(file.tbl)]

\* load_dict_from_toml(): file is [state, tbl], the config.toml on disk; the
\* result is [w, toml_dict]
load_dict_from_toml(w, file) ==
  CASE file.state = "missing" -> [w |-> Warn(w, "config_file_not_found", ""), v |-> TomlNone]
    [] file.state = "malformed" -> [w |-> Warn(w, "cannot_parse_config", ""), v |-> TomlNone]
    [] OTHER -> [w |-> w, v |-> TomlDict(file.tbl)]

\* "toml_dict = load_dict_from_toml(); if toml_dict: AppConfig.load_from_toml(toml_dict)"
LoadAppConfigToml(w, file) ==
  LET r == load_dict_from_toml(w, file)
  IN IF ~r.v.isnone /\ DOMAIN r.v.tbl # {}
     THEN AppConfig_load_from_toml(r.w, r.v)
     ELSE r.w

\* "env_dict = dict(os.environ); AppConfig.load_from_env(env_dict)"
LoadAppConfigEnv(w, env_dict) == AppConfig_load_from_env(w, env_dict)

-----------------------------------------------------------------------------
(* The inputs of a run *)

\* a run's document and environment together set at most this many keys
MaxInputKeys == 2

\* the mappings from exactly n of the keys to one of the values V(key)
Partial(keys, V(_), n) ==
  UNION {{m \in [S -> UNION {V(k) : k \in S}] : \A k \in S : m[k] \in V(k)} :
           S \in {T \in SUBSET keys : Cardinality(T) = n}}

\* the values documents give to a key of a section
DocVals(key) ==
  CASE key \in {"model", "embedding_model"} -> {PyTok("A")}
    [] key = "api_key" -> {PyTok("sk-doc")}
    [] key = "aws_access_key_id" -> {PyTok("aws-doc")}
    [] key = "timeout" -> {PyInt(10)}
    [] key = "drop_params" -> {PyBool(TRUE)}
    [] key = "base_url" -> {PyTok("http://doc")}
    [] key = "embedding_deployment_name" -> {PyTok("dep-doc")}
    [] key \in {"memory_enabled", "confirmation_mode", "use_host_network", "debug"} ->
         {PyBool(TRUE)}
    [] key = "memory_max_threads" -> {PyInt(5)}
    [] key \in {"llm_config", "memory_config"} -> {PyTok("g1")}
    [] key \in {"security_analyzer", "browsergym_eval_env"} -> {PyTok("doc")}
    [] key = "workspace_base" -> {PyStr(<<"/", "ws">>), PyStr(<<"ws">>),
                                  PyStr(<<"/", "ws", "/", "ws">>)}
    [] key = "workspace_mount_path" -> {PyStr(<<"/", "mnt">>), PyNone}
    [] key = "workspace_mount_rewrite" -> {PyStr(<<"/", "ws", ":", "/", "host">>)}
    [] key = "cache_dir" -> {PyStr(<<>>)}
    [] key \in {"max_iterations", "sandbox_timeout", "sandbox_sandbox_timeout",
                 "MAX_ITERATIONS"} -> {PyInt(5)}
    [] key = "e2b_api_key" -> {PyTok("e2b-doc")}
    [] key = "jwt_secret" -> {PyTok("jwt-doc")}
    [] key = "LLM_MODEL" -> {PyTok("F")}
    [] OTHER -> {PyTok("x")}

\* the values a named group of a document gives to a key
GroupVals(key) ==
  CASE key \in {"model", "embedding_model"} -> {PyTok("B")}
    [] key = "api_key" -> {PyTok("sk-g1")}
    [] key = "base_url" -> {PyTok("http://g1")}
    [] key = "memory_enabled" -> {PyBool(TRUE)}
    [] key = "memory_max_threads" -> {PyInt(7)}
    [] OTHER -> {PyTok("y")}

\* the strings the environment gives to a variable of a field of the type
EnvVals(type) ==
  CASE type \in {"str", "str?", "xref"} -> {PyStr(<<>>), PyTok("E")}
    [] type \in {"int", "int?"} -> {PyStr(<<>>), PyTok("7"), PyTok("abc")}
    [] type \in {"bool", "bool?"} -> {PyStr(<<>>), PyTok("True"), PyTok("1"), PyTok("false")}
    [] OTHER -> {PyTok("E")}

DomainKinds == <<"LLMConfig", "MemoryConfig", "AgentConfig", "SandboxConfig", "SecurityConfig">>

SectionName(cls) ==
  CASE cls = "SandboxConfig" -> "sandbox"
    [] cls = "SecurityConfig" -> "security"
    [] OTHER -> DefaultKey(cls)

\* the field whose environment variable is named var, as <<cls, f>>
EnvVarField(var) ==
  CHOOSE p \in {<<c, f>> : c \in Classes \cup {"AppConfig"}, f \in KeyNames} :
    p[2] \in Fields(p[1]) /\ EnvPrefix(p[1]) \o Upper(p[2]) = var

EnvVarsOf(cls) == {EnvPrefix(cls) \o Upper(f) : f \in Fields(cls) \ EnvSkipped("AppConfig")}

EnvValsOf(var) == EnvVals(FieldType(EnvVarField(var)[1], EnvVarField(var)[2]))

\* the environments that set n of the variables of a class
EnvsOf(cls, n) == Partial(EnvVarsOf(cls), EnvValsOf, n)

\* the first two declared fields of a class
FirstFields(cls) == {FieldSeq(cls)[1], FieldSeq(cls)[2]}

\* the keys old documents keep in the section of a kind
LegacyKeys(cls) == IF cls = "LLMConfig" THEN {"embedding_model"} ELSE {}

\* the sections of a domain kind with n scalar entries (declared fields, the
\* undeclared key bogus or a legacy key) and, for the kinds with named groups, at most
\* one group g1 of at most one entry
SectionsOf(cls, n) ==
  LET scalars == Partial(Fields(cls) \cup {"bogus"} \cup LegacyKeys(cls), DocVals, n)
      groups == IF cls \in {"LLMConfig", "MemoryConfig", "AgentConfig"}
                THEN {EmptyMap} \cup
                     {Put(EmptyMap, "g1", Tb([k \in DOMAIN g |-> Sc(g[k])])) :
                        g \in Partial(FirstFields(cls), GroupVals, 0)
                                \cup Partial(FirstFields(cls), GroupVals, 1)}
                ELSE {EmptyMap}
  IN {Update([k \in DOMAIN sc |-> Sc(sc[k])], g) : sc \in scalars, g \in groups}

FileOk(tbl) == [state |-> "ok", tbl |-> tbl]
NoFile == {[state |-> "missing", tbl |-> EmptyMap], [state |-> "malformed", tbl |-> EmptyMap]}

\* the documents that hold the section of one domain kind
DocsOf(cls, n) ==
  {FileOk(Put(EmptyMap, SectionName(cls), Tb(sec))) : sec \in SectionsOf(cls, n)}

\* the documents about the top-level fields: a core section of n entries,
\* with or without a sandbox section and an unknown top-level key; the old
\* flat style without a core section; no document
CoreKeys ==
  (Fields("AppConfig") \ EnvSkipped("AppConfig"))
    \cup {"bogus", "get_llm_config", "sandbox_timeout", "sandbox_bogus",
          "sandbox_load_from_env", "sandbox_sandbox_timeout"}

CoreDocs(n) ==
  {FileOk(Update(Put(EmptyMap, "core", Tb([k \in DOMAIN c |-> Sc(c[k])])), x)) :
     c \in Partial(CoreKeys, DocVals, n),
     x \in {EmptyMap,
            Put(EmptyMap, "sandbox", Tb(Put(EmptyMap, "timeout", Sc(PyInt(9))))),
            Put(EmptyMap, "foo", Sc(PyTok("x"))),
            Put(Put(EmptyMap, "foo", Sc(PyTok("x"))),
                "llm", Tb(Put(EmptyMap, "bogus", Sc(PyTok("x")))))}}
    \cup {FileOk([k \in DOMAIN c |-> Sc(c[k])]) :
            c \in Partial({"MAX_ITERATIONS", "LLM_MODEL"}, DocVals, n)}
    \cup (IF n = 0 THEN NoFile ELSE {})

\* the environments that set n variables, one of them of LLMConfig and the
\* others of AppConfig
MixedEnvs(n) ==
  IF n < 2 THEN {}
  ELSE {Update(e[1], e[2]) : e \in EnvsOf("AppConfig", n - 1) \X EnvsOf("LLMConfig", 1)}

\* a run's document and environment deal with one class at a time, or the
\* environment with the top-level fields and one field of LLMConfig
Inputs ==
  UNION {UNION {DocsOf(DomainKinds[i], n[1]) \X EnvsOf(DomainKinds[i], n[2]) :
                  i \in 1..Len(DomainKinds)}
           \cup (CoreDocs(n[1]) \X (EnvsOf("AppConfig", n[2]) \cup MixedEnvs(n[2]))) :
         n \in {p \in (0..MaxInputKeys) \X (0..MaxInputKeys) : p[1] + p[2] <= MaxInputKeys}}

-----------------------------------------------------------------------------
(* The state machine *)

\* AppConfig(): the first construction builds the two singleton sub-configs
\* by their default factories; the maps are empty
InitSandbox == [cls |-> "SandboxConfig", d |-> Defaults("SandboxConfig")]
InitSecurity == [cls |-> "SecurityConfig", d |-> Defaults("SecurityConfig")]

InitCfg ==
  [llms |-> EmptyMap, agents |-> EmptyMap, memories |-> EmptyMap,
   sandbox |-> 1, security |-> 2,
   f |-> [k \in Fields("AppConfig") \ EnvSkipped("AppConfig") |-> FieldDefault("AppConfig", k)]]

\* the serving layer has not started: no reader, no conversation, no handler
NotServing ==
  /\ readers = <<>>
  /\ conversations = <<>>
  /\ broker_listeners = {}
  /\ handlers = <<>>

Constructed ==
  /\ NotServing
  /\ cfg = InitCfg
  /\ heap = <<InitSandbox, InitSecurity>>
  /\ singles = [c \in Classes |-> CASE c = "SandboxConfig" -> 1
                                    [] c = "SecurityConfig" -> 2
                                    [] OTHER -> 0]
  /\ warns = <<>>
  /\ exc = ""
  /\ result = PyNone
  /\ op = <<"AppConfig">>
  /\ nops = 0

\* load_app_config() has run "config = AppConfig()"
Init ==
  /\ Constructed
  /\ pc = "start"
  /\ \E i \in Inputs : toml = i[1] /\ environ = i[2]

World == [cfg |-> cfg, heap |-> heap, singles |-> singles, warns |-> warns, exc |-> ""]

Commit(w) ==
  /\ cfg' = w.cfg
  /\ heap' = w.heap
  /\ singles' = w.singles
  /\ warns' = w.warns
  /\ exc' = w.exc

\* load_app_config: the document pass
LoadToml ==
  /\ pc = "start"
  /\ LET w == LoadAppConfigToml(World, toml)
     IN Commit(w) /\ pc' = IF w.exc = "" THEN "toml_done" ELSE "raised"
  /\ UNCHANGED <<toml, environ, result, op, nops, serving>>

\* load_app_config: the environment pass
LoadEnv ==
  /\ pc = "toml_done"
  /\ LET w == LoadAppConfigEnv(World, environ)
     IN Commit(w) /\ pc' = IF w.exc = "" THEN "env_done" ELSE "raised"
  /\ UNCHANGED <<toml, environ, result, op, nops, serving>>

\* load_app_config: finalize_config(config), after which config is returned
Finalize ==
  /\ pc = "env_done"
  /\ \E mkdir_ok \in BOOLEAN :
       LET w == finalize_config(World, mkdir_ok)
       IN Commit(w) /\ pc' = IF w.exc = "" THEN "done" ELSE "raised"
  /\ UNCHANGED <<toml, environ, result, op, nops, serving>>

Next == LoadToml \/ LoadEnv \/ Finalize

Spec == Init /\ [][Next]_vars

-----------------------------------------------------------------------------
(* The aggregate in use after construction: any sequence of at most MaxOps *)
(* calls of its loaders, accessors, setters and display methods            *)

MaxOps == 3

Kinds == {"LLMConfig", "MemoryConfig", "AgentConfig"}

\* the names the accessors are called with
GetNames(cls) == {PyTok(DefaultKey(cls)), PyTok("g1"), PyTok("nope"), PyNone}
SetNames(cls) == {DefaultKey(cls), "g1"}

\* the keyword arguments of the instances callers construct for a setter
NewKwargs(cls) ==
  CASE cls = "LLMConfig" -> [api_key |-> PyTok("sk-set")]
    [] cls = "MemoryConfig" -> [api_key |-> PyTok("mem-set")]
    [] cls = "AgentConfig" -> [llm_config |-> PyTok("g1")]

\* the values callers assign to a field of a live instance
AssignVals(cls) ==
  CASE cls = "LLMConfig" -> {<<"api_key", PyStr(<<>>)>>, <<"model", PyTok("M")>>}
    [] cls = "MemoryConfig" -> {<<"api_key", PyTok("mem-new")>>}
    [] cls = "AgentConfig" -> {<<"memory_enabled", PyBool(TRUE)>>}

\* the documents and environments of the loader calls
ApiDocs ==
  {TomlDict(Put(EmptyMap, "llm",
                Tb([model |-> Sc(PyTok("A")), api_key |-> Sc(PyTok("sk-doc")),
                    g1 |-> Tb([model |-> Sc(PyTok("B"))])]))),
   TomlDict(Put(EmptyMap, "memory",
                Tb([api_key |-> Sc(PyTok("mem-doc")),
                    g1 |-> Tb([base_url |-> Sc(PyTok("http://g1"))])]))),
   TomlDict(Put(Put(EmptyMap, "agent", Tb([g1 |-> Tb([llm_config |-> Sc(PyTok("g1"))])])),
                "core", Tb([e2b_api_key |-> Sc(PyTok("e2b-doc"))]))),
   TomlNone}

ApiEnvs ==
  {[LLM_API_KEY |-> PyTok("sk-env")],
   [MEMORY_API_KEY |-> PyTok("mem-env"), JWT_SECRET |-> PyTok("jwt-env")]}

InitApi ==
  /\ Constructed
  /\ pc = "api"
  /\ toml = [state |-> "missing", tbl |-> EmptyMap]
  /\ environ = EmptyMap

\* the world at the start of a call: no warning logged yet
Fresh == [World EXCEPT !.warns = <<>>]

Called(w, what, res) ==
  /\ nops < MaxOps
  /\ pc = "api"
  /\ Commit(w)
  /\ op' = what
  /\ result' = res
  /\ nops' = nops + 1
  /\ UNCHANGED <<pc, toml, environ, serving>>

\* config.get_llm_config(name), get_memory_config(name), get_agent_config(name)
ApiGet ==
  \E cls \in Kinds : \E name \in GetNames(cls) :
    LET r == GetConfig(Fresh, cls, name)
    IN Called(r.w, <<"get", cls, name>>, PyRef(r.a))

\* the result of a setter call: value == 0 stands for a new instance
SetWith(r, cls, name) == SetConfig(r.w, cls, r.a, name)

\* config.set_llm_config(value, name) etc., value a new instance or one the
\* aggregate already holds
ApiSet ==
  \E cls \in Kinds : \E name \in SetNames(cls) :
    \/ Called(SetWith(New(Fresh, cls, NewKwargs(cls)), cls, name),
              <<"set", cls, name, Len(heap) + 1>>, PyNone)
    \/ \E k \in DOMAIN MapOf(cfg, cls) :
         Called(SetConfig(Fresh, cls, MapOf(cfg, cls)[k], name),
                <<"set", cls, name, MapOf(cfg, cls)[k]>>, PyNone)

\* instance.<field> = value on an instance the aggregate holds
ApiAssign ==
  \E cls \in Kinds : \E k \in DOMAIN MapOf(cfg, cls) : \E fv \in AssignVals(cls) :
    Called([Fresh EXCEPT !.heap[MapOf(cfg, cls)[k]].d = Put(@, fv[1], fv[2])],
           <<"assign", cls, k, fv[1]>>, PyNone)

\* llm_config.to_safe_dict() on an LLMConfig the aggregate holds
ApiSafeDict ==
  \E k \in DOMAIN cfg.llms :
    LET r == to_safe_dict(Fresh, cfg.llms[k])
    IN Called(r.w, <<"to_safe_dict", cfg.llms[k]>>, r.v)

\* str(instance) of an instance the aggregate holds
ApiStr ==
  \E a \in UNION {{MapOf(cfg, cls)[k] : k \in DOMAIN MapOf(cfg, cls)} : cls \in Kinds}
             \cup {cfg.sandbox, cfg.security} :
    Called(Fresh, <<"str", a>>, BaseConfig_str(Fresh, a))

\* str(config)
ApiStrApp == Called(Fresh, <<"str_app">>, AppConfig_str(Fresh))

\* AppConfig.load_from_toml(toml_config)
ApiLoadToml ==
  \E d \in ApiDocs : Called(AppConfig_load_from_toml(Fresh, d), <<"load_from_toml">>, PyNone)

\* AppConfig.load_from_env(env_dict)
ApiLoadEnv ==
  \E e \in ApiEnvs : Called(AppConfig_load_from_env(Fresh, e), <<"load_from_env">>, PyNone)

\* finalize_config(config)
ApiFinalize ==
  \E mkdir_ok \in BOOLEAN :
    Called(finalize_config(Fresh, mkdir_ok), <<"finalize_config">>, PyNone)

NextApi ==
  \/ ApiGet \/ ApiSet \/ ApiAssign \/ ApiSafeDict \/ ApiStr \/ ApiStrApp
  \/ ApiLoadToml \/ ApiLoadEnv \/ ApiFinalize

SpecApi == InitApi /\ [][NextApi]_vars

-----------------------------------------------------------------------------
(* Finalization of an aggregate that loads and setters have prepared: any  *)
(* sequence of at most MaxFinOps loader, setter and finalize_config calls  *)

MaxFinOps == 4

\* the documents loaded before finalization
FinDocs ==
  {TomlDict(Put(EmptyMap, "core", Tb([workspace_base |-> Sc(PyStr(<<"ws">>))]))),
   TomlDict(Put(EmptyMap, "core",
                Tb([workspace_base |-> Sc(PyStr(<<"/", "ws", "/", "ws">>)),
                    workspace_mount_rewrite |-> Sc(PyStr(<<"/", "ws", ":", "/", "host">>))]))),
   TomlDict(Put(EmptyMap, "core",
                Tb([workspace_base |-> Sc(PyStr(<<"ws">>)),
                    workspace_mount_path |-> Sc(PyStr(<<"/", "mnt">>)),
                    workspace_mount_rewrite |-> Sc(PyStr(<<"/", "ws", ":", "/", "ws", "/", "x">>))]))),
   TomlDict(Put(EmptyMap, "core", Tb([workspace_mount_rewrite |-> Sc(PyStr(<<"norule">>))]))),
   TomlDict(Put(EmptyMap, "core",
                Tb([workspace_base |-> Sc(PyStr(<<"ws">>)),
                    workspace_mount_rewrite |-> Sc(PyStr(<<"/", "ws", ":", "/", "ws", "/", "x">>))]))),
   TomlDict(Put(EmptyMap, "llm",
                Tb([g1 |-> Tb([embedding_model |-> Sc(PyTok("legacy-model")),
                               embedding_base_url |-> Sc(PyTok("http://legacy")),
                               embedding_deployment_name |-> Sc(PyTok("legacy-dep"))])]))),
   TomlDict(Put(EmptyMap, "memory",
                Tb([embedding_deployment_name |-> Sc(PyTok("dep-doc"))]))),
   TomlDict([llm |-> Tb([g1 |-> Tb([embedding_base_url |-> Sc(PyTok("http://legacy"))])]),
             memory |-> Tb([base_url |-> Sc(PyTok("http://mem"))])])}

FinEnvs == {[WORKSPACE_MOUNT_PATH |-> PyStr(<<"/", "mnt">>), LLM_MODEL |-> PyTok("E")]}

InitFin ==
  /\ Constructed
  /\ pc = "fin"
  /\ toml = [state |-> "missing", tbl |-> EmptyMap]
  /\ environ = EmptyMap

FinCalled(w, what) ==
  /\ nops < MaxFinOps
  /\ pc = "fin"
  /\ Commit(w)
  /\ op' = what
  /\ result' = PyNone
  /\ nops' = nops + 1
  /\ UNCHANGED <<pc, toml, environ, serving>>

\* AppConfig.load_from_toml(toml_config)
FinLoadToml ==
  \E d \in FinDocs : FinCalled(AppConfig_load_from_toml(Fresh, d), <<"load_from_toml">>)

\* AppConfig.load_from_env(env_dict)
FinLoadEnv ==
  \E e \in FinEnvs : FinCalled(AppConfig_load_from_env(Fresh, e), <<"load_from_env">>)

\* config.set_llm_config(config.get_llm_config(k)): a named group the
\* aggregate holds becomes the default group
FinSetDefault ==
  \E k \in DOMAIN cfg.llms \ {"llm"} :
    FinCalled(set_llm_config(Fresh, cfg.llms[k], "llm"), <<"set_llm_config", k>>)

\* finalize_config(config)
FinFinalize ==
  \E mkdir_ok \in BOOLEAN :
    FinCalled(finalize_config(Fresh, mkdir_ok), <<"finalize_config">>)

NextFin == FinLoadToml \/ FinLoadEnv \/ FinSetDefault \/ FinFinalize

SpecFin == InitFin /\ [][NextFin]_vars

-----------------------------------------------------------------------------
(* The cross-references of agents: any sequence of at most MaxRefOps       *)
(* document loads, set_agent_config calls and resolutions                  *)

MaxRefOps == 3

RefDocs ==
  {TomlDict(Put(EmptyMap, "llm", Tb([model |-> Sc(PyTok("A")), g1 |-> Tb([model |-> Sc(PyTok("B"))])]))),
   TomlDict(Put(EmptyMap, "memory", Tb([g1 |-> Tb([base_url |-> Sc(PyTok("http://g1"))])]))),
   TomlDict(Put(EmptyMap, "agent",
                Tb([llm_config |-> Sc(PyTok("g1")),
                    g1 |-> Tb([llm_config |-> Sc(PyTok("nope")),
                               memory_config |-> Sc(PyTok("g1"))])])))}

\* what a caller puts in the cross-reference fields of a new agent: an inline
\* instance, the name of a group, or nothing
RefShapes == {"inline_llm", "inline_memory", "g1", "nope", "none"}

RefNames == {"agent", "g1"}

\* AgentConfig(llm_config=inl): inl is the inline instance [w, a]
AgentInline(inl, field) ==
  New(inl.w, "AgentConfig", Put(EmptyMap, field, PyRef(inl.a)))

\* AgentConfig(llm_config=..., memory_config=...) for a shape
AgentWith(w, shape) ==
  CASE shape = "inline_llm" ->
         AgentInline(New(w, "LLMConfig", [model |-> PyTok("inline")]), "llm_config")
    [] shape = "inline_memory" ->
         AgentInline(New(w, "MemoryConfig", [base_url |-> PyTok("http://inline")]),
                     "memory_config")
    [] shape = "none" -> New(w, "AgentConfig", EmptyMap)
    [] OTHER -> New(w, "AgentConfig",
                    [llm_config |-> PyTok(shape), memory_config |-> PyTok(shape)])

InitRef ==
  /\ Constructed
  /\ pc = "ref"
  /\ toml = [state |-> "missing", tbl |-> EmptyMap]
  /\ environ = EmptyMap

RefCalled(w, what, res) ==
  /\ nops < MaxRefOps
  /\ pc = "ref"
  /\ Commit(w)
  /\ op' = what
  /\ result' = res
  /\ nops' = nops + 1
  /\ UNCHANGED <<pc, toml, environ, serving>>

\* AppConfig.load_from_toml(toml_config)
RefLoadToml ==
  \E d \in RefDocs :
    RefCalled(AppConfig_load_from_toml(Fresh, d), <<"load_from_toml">>, PyNone)

\* config.set_agent_config(AgentConfig(...), name)
RefSetAgent ==
  \E name \in RefNames : \E shape \in RefShapes :
    LET ag == AgentWith(Fresh, shape)
    IN RefCalled(set_agent_config(ag.w, ag.a, name), <<"set_agent_config", name>>, PyNone)

\* config.get_llm_config_from_agent(name)
RefResolveLLM ==
  \E name \in RefNames \cup {"nope"} :
    LET r == get_llm_config_from_agent(Fresh, PyTok(name))
    IN RefCalled(r.w, <<"resolve", "LLMConfig", name>>, PyRef(r.a))

\* config.get_memory_config_from_agent(name)
RefResolveMemory ==
  \E name \in RefNames \cup {"nope"} :
    LET r == get_memory_config_from_agent(Fresh, PyTok(name))
    IN RefCalled(r.w, <<"resolve", "MemoryConfig", name>>, PyRef(r.a))

NextRef == RefLoadToml \/ RefSetAgent \/ RefResolveLLM \/ RefResolveMemory

SpecRef == InitRef /\ [][NextRef]_vars

-----------------------------------------------------------------------------
(* Concurrent readers: threads of the serving layer, each inside one call  *)
(* of get_llm_config or get_memory_config on the same aggregate, which     *)
(* take their statements in any order.  No set call runs.                  *)

MaxReaders == 2

Readers == 1..MaxReaders

\* the kinds whose accessor the readers call
ReaderKinds == {"LLMConfig", "MemoryConfig"}

\* the aggregates the readers start on: as constructed, or after the load of a document
ReaderDocs == {TomlNone} \cup {d \in ApiDocs : ~d.isnone /\ "llm" \in DOMAIN d.tbl}

ConstructedWorld ==
  [cfg |-> InitCfg, heap |-> <<InitSandbox, InitSecurity>>,
   singles |-> [c \in Classes |-> CASE c = "SandboxConfig" -> 1
                                    [] c = "SecurityConfig" -> 2
                                    [] OTHER -> 0],
   warns |-> <<>>, exc |-> ""]

\* a reader that is in no call
Idle == [at |-> "idle", cls |-> "", name |-> PyNone, made |-> 0, got |-> 0]

InitGet ==
  /\ \E d \in ReaderDocs :
       LET w == AppConfig_load_from_toml(ConstructedWorld, d)
       IN cfg = w.cfg /\ heap = w.heap /\ singles = w.singles
  /\ warns = <<>>
  /\ exc = ""
  /\ result = PyNone
  /\ op = <<"AppConfig">>
  /\ nops = 0
  /\ pc = "get"
  /\ toml = [state |-> "missing", tbl |-> EmptyMap]
  /\ environ = EmptyMap
  /\ readers = [r \in Readers |-> Idle]
  /\ conversations = <<>>
  /\ broker_listeners = {}
  /\ handlers = <<>>

\* what a step of a reader leaves alone
ReaderFrame ==
  UNCHANGED <<singles, exc, pc, toml, environ, result, op, nops,
              conversations, broker_listeners, handlers>>

\* the reader r is at the statement at
At(r, at) == pc = "get" /\ readers[r].at = at

\* the reader r goes on to the statement at
Goto(r, at) == readers' = [readers EXCEPT ![r].at = at]

\* a thread calls config.get_llm_config(name) or config.get_memory_config(name)
GetCall(r) ==
  /\ At(r, "idle")
  /\ \E cls \in ReaderKinds : \E name \in GetNames(cls) :
       readers' = [readers EXCEPT ![r] = [Idle EXCEPT !.at = "test", !.cls = cls, !.name = name]]
  /\ UNCHANGED <<cfg, heap, warns>>
  /\ ReaderFrame

\* "if name in self.llms:"
GetTest(r) ==
  /\ At(r, "test")
  /\ Goto(r, IF NameIn(readers[r].name, MapOf(cfg, readers[r].cls)) THEN "hit" ELSE "warn")
  /\ UNCHANGED <<cfg, heap, warns>>
  /\ ReaderFrame

\* "return self.llms[name]"
GetHit(r) ==
  /\ At(r, "hit")
  /\ readers' = [readers EXCEPT ![r].at = "done",
                                ![r].got = MapOf(cfg, readers[r].cls)[readers[r].name.s[1]]]
  /\ UNCHANGED <<cfg, heap, warns>>
  /\ ReaderFrame

\* "if name is not None and name != 'llm': logger.openhands_logger.warning(...)"
GetWarn(r) ==
  /\ At(r, "warn")
  /\ Goto(r, "check")
  /\ warns' = IF readers[r].name # PyNone /\ readers[r].name # PyTok(DefaultKey(readers[r].cls))
              THEN Append(warns, <<IF readers[r].cls = "LLMConfig" THEN "llm_group_not_found"
                                   ELSE "memory_group_not_found",
                                   py_str(readers[r].name).s[1]>>)
              ELSE warns
  /\ UNCHANGED <<cfg, heap>>
  /\ ReaderFrame

\* "if 'llm' not in self.llms:"
GetCheck(r) ==
  /\ At(r, "check")
  /\ Goto(r, IF DefaultKey(readers[r].cls) \in DOMAIN MapOf(cfg, readers[r].cls)
             THEN "return" ELSE "make")
  /\ UNCHANGED <<cfg, heap, warns>>
  /\ ReaderFrame

\* the right-hand side of "self.llms['llm'] = LLMConfig()"
GetMake(r) ==
  /\ At(r, "make")
  /\ heap' = Append(heap, [cls |-> readers[r].cls, d |-> Defaults(readers[r].cls)])
  /\ readers' = [readers EXCEPT ![r].at = "store", ![r].made = Len(heap) + 1]
  /\ UNCHANGED <<cfg, warns>>
  /\ ReaderFrame

\* the assignment of "self.llms['llm'] = LLMConfig()"
GetStore(r) ==
  /\ At(r, "store")
  /\ cfg' = SetConfig([cfg |-> cfg], readers[r].cls, readers[r].made,
                      DefaultKey(readers[r].cls)).cfg
  /\ Goto(r, "return")
  /\ UNCHANGED <<heap, warns>>
  /\ ReaderFrame

\* "return self.llms['llm']"
GetReturn(r) ==
  /\ At(r, "return")
  /\ readers' = [readers EXCEPT ![r].at = "done",
                                ![r].got = MapOf(cfg, readers[r].cls)[DefaultKey(readers[r].cls)]]
  /\ UNCHANGED <<cfg, heap, warns>>
  /\ ReaderFrame

NextGet ==
  \E r \in Readers :
    \/ GetCall(r) \/ GetTest(r) \/ GetHit(r) \/ GetWarn(r)
    \/ GetCheck(r) \/ GetMake(r) \/ GetStore(r) \/ GetReturn(r)

SpecGet == InitGet /\ [][NextGet]_vars

-----------------------------------------------------------------------------
(* The websocket endpoints of the serving layer.  A handler is a coroutine *)
(* of the event loop; it gives up control at every await, so the steps of  *)
(* handlers and of the requests that create conversations interleave at    *)
(* the awaits.  The conversation broker and its conversations keep their   *)
(* listeners by id; a listener is named after the handler that made it.    *)

MaxHandlers == 1
MaxConversations == 2

\* the number of results on a page of search_conversations
PageSize == 1

Handlers == 1..MaxHandlers

HandlerKinds == {"connect_and_create_conversation", "connect", "fire_hose"}

\* a handler that has not been called
NoHandler ==
  [kind |-> "", at |-> "idle", state |-> "CONNECTED", conv |-> 0, listener_id |-> 0,
   page_id |-> 0, next_page_id |-> 0, page |-> {}, told |-> {}, pending |-> {}, raised |-> ""]

InitWs ==
  /\ cfg = InitCfg
  /\ heap = <<InitSandbox, InitSecurity>>
  /\ singles = ConstructedWorld.singles
  /\ warns = <<>>
  /\ exc = ""
  /\ result = PyNone
  /\ op = <<"AppConfig">>
  /\ nops = 0
  /\ pc = "ws"
  /\ toml = [state |-> "missing", tbl |-> EmptyMap]
  /\ environ = EmptyMap
  /\ readers = <<>>
  /\ conversations = <<>>
  /\ broker_listeners = {}
  /\ handlers = [h \in Handlers |-> NoHandler]

\* what a step of the serving layer leaves alone
WsFrame ==
  UNCHANGED <<cfg, heap, singles, warns, exc, pc, toml, environ, result, op, nops, readers>>

\* the handler h is at the statement at
HandlerAt(h, at) == pc = "ws" /\ handlers[h].at = at

\* conversation_broker.create_conversation(): the new conversation has no
\* listener, and the broker tells each of its listeners of it
\* (after_create_conversation)
Told(hs, id) ==
  [g \in DOMAIN hs |-> IF g \in broker_listeners THEN [hs[g] EXCEPT !.told = @ \cup {id}]
                       ELSE hs[g]]

\* the registered listeners of the handler h, on a conversation or on the broker
Registered(h) ==
  h \in broker_listeners \/ \E c \in DOMAIN conversations : h \in conversations[c]

\* a client opens one of the three websockets; conversation_id is the path
\* parameter of /conversation/{conversation_id}
WsOpen(h) ==
  /\ HandlerAt(h, "idle")
  /\ \E kind \in HandlerKinds : \E conversation_id \in 1..MaxConversations :
       /\ kind # "connect" => conversation_id = 1
       /\ handlers' = [handlers EXCEPT ![h] =
            [NoHandler EXCEPT !.kind = kind, !.at = "accept",
                              !.conv = IF kind = "connect" THEN conversation_id ELSE 0]]
  /\ UNCHANGED <<conversations, broker_listeners>>
  /\ WsFrame

\* "await websocket.accept()": accepted, or an error (TimeoutError of wait_for
\* among them) ends the handler before any listener exists
Accept(h) ==
  /\ HandlerAt(h, "accept")
  /\ \/ handlers' = [handlers EXCEPT ![h].at =
                       CASE handlers[h].kind = "connect_and_create_conversation" -> "create_conversation"
                         [] handlers[h].kind = "connect" -> "get_conversation"
                         [] OTHER -> "search_conversations"]
     \/ handlers' = [handlers EXCEPT ![h].at = "returned", ![h].raised = "Error"]
  /\ UNCHANGED <<conversations, broker_listeners>>
  /\ WsFrame

\* POST /conversation: "return await conversation_broker.create_conversation(agent_config)"
create_conversation ==
  /\ pc = "ws"
  /\ Len(conversations) < MaxConversations
  /\ conversations' = Append(conversations, {})
  /\ handlers' = Told(handlers, Len(conversations) + 1)
  /\ UNCHANGED broker_listeners
  /\ WsFrame

\* "conversation = await conversation_broker.create_conversation()" of
\* connect_and_create_conversation
CreateConversation(h) ==
  /\ HandlerAt(h, "create_conversation")
  /\ Len(conversations) < MaxConversations
  /\ conversations' = Append(conversations, {})
  /\ handlers' = [Told(handlers, Len(conversations) + 1) EXCEPT
                    ![h].conv = Len(conversations) + 1, ![h].at = "add_listener"]
  /\ UNCHANGED broker_listeners
  /\ WsFrame

\* "conversation = await conversation_broker.get_conversation(conversation_id)"
\* of connect: None for an unknown id, on which add_listener then raises
GetConversation(h) ==
  /\ HandlerAt(h, "get_conversation")
  /\ handlers' = IF handlers[h].conv \in DOMAIN conversations
                 THEN [handlers EXCEPT ![h].at = "add_listener"]
                 ELSE [handlers EXCEPT ![h].at = "returned", ![h].raised = "AttributeError"]
  /\ UNCHANGED <<conversations, broker_listeners>>
  /\ WsFrame

\* "listener_id = await conversation.add_listener(WebsocketConversationListener(...))"
AddListener(h) ==
  /\ HandlerAt(h, "add_listener")
  /\ conversations' = [conversations EXCEPT ![handlers[h].conv] = @ \cup {h}]
  /\ handlers' = [handlers EXCEPT ![h].listener_id = h, ![h].at = "while"]
  /\ UNCHANGED broker_listeners
  /\ WsFrame

\* "page = await conversation_broker.search_conversations(page_id=page_id)":
\* the conversations in the order of their creation, PageSize to a page
SearchConversations(h) ==
  /\ HandlerAt(h, "search_conversations")
  /\ LET first == handlers[h].page_id + 1
         last == handlers[h].page_id + PageSize
         results == {c \in DOMAIN conversations : first <= c /\ c <= last}
     IN handlers' = [handlers EXCEPT
          ![h].page = results,
          ![h].next_page_id = IF Len(conversations) > last THEN last ELSE 0,
          ![h].at = IF results # {} THEN "get_conversations" ELSE "next_page"]
  /\ UNCHANGED <<conversations, broker_listeners>>
  /\ WsFrame

\* the first asyncio.wait of fire_hose, over the get_conversation tasks:
\* "if pending: raise TimeoutError()"
GetConversations(h) ==
  /\ HandlerAt(h, "get_conversations")
  /\ \/ handlers' = [handlers EXCEPT ![h].at = "after_create_conversation"]
     \/ handlers' = [handlers EXCEPT ![h].at = "returned", ![h].raised = "TimeoutError"]
  /\ UNCHANGED <<conversations, broker_listeners>>
  /\ WsFrame

\* the second asyncio.wait of fire_hose, over the
\* listener.after_create_conversation tasks: what it returns is dropped, so
\* after the timeout the tasks that are still pending go on by themselves
AfterCreateConversation(h) ==
  /\ HandlerAt(h, "after_create_conversation")
  /\ \/ handlers' = [handlers EXCEPT ![h].told = @ \cup handlers[h].page, ![h].at = "next_page"]
     \/ handlers' = [handlers EXCEPT ![h].pending = @ \cup handlers[h].page, ![h].at = "next_page"]
  /\ UNCHANGED <<conversations, broker_listeners>>
  /\ WsFrame

\* a pending after_create_conversation task of the listener completes
PendingCompletes(h) ==
  /\ pc = "ws"
  /\ \E c \in handlers[h].pending :
       handlers' = [handlers EXCEPT ![h].told = @ \cup {c}, ![h].pending = @ \ {c}]
  /\ UNCHANGED <<conversations, broker_listeners>>
  /\ WsFrame

\* "page_id = page.next_page_id; if not page_id: break"
NextPage(h) ==
  /\ HandlerAt(h, "next_page")
  /\ handlers' = [handlers EXCEPT
       ![h].page_id = handlers[h].next_page_id,
       ![h].at = IF handlers[h].next_page_id = 0 THEN "broker_add_listener"
                 ELSE "search_conversations"]
  /\ UNCHANGED <<conversations, broker_listeners>>
  /\ WsFrame

\* "listener_id = await conversation_broker.add_listener(listener)"
BrokerAddListener(h) ==
  /\ HandlerAt(h, "broker_add_listener")
  /\ broker_listeners' = broker_listeners \cup {h}
  /\ handlers' = [handlers EXCEPT ![h].listener_id = h, ![h].at = "while"]
  /\ UNCHANGED conversations
  /\ WsFrame

\* the application side of the websocket stops being connected (a close, or
\* a send of the listener that found the client gone)
ApplicationDisconnected(h) ==
  /\ pc = "ws"
  /\ handlers[h].at \in {"while", "receive_json", "create_task", "sleep"}
  /\ handlers[h].state = "CONNECTED"
  /\ handlers' = [handlers EXCEPT ![h].state = "DISCONNECTED"]
  /\ UNCHANGED <<conversations, broker_listeners>>
  /\ WsFrame

\* "while websocket.application_state == WebSocketState.CONNECTED:"
While(h) ==
  /\ HandlerAt(h, "while")
  /\ handlers' = [handlers EXCEPT ![h].at =
       IF handlers[h].state # "CONNECTED" THEN "finally"
       ELSE IF handlers[h].kind = "fire_hose" THEN "sleep" ELSE "receive_json"]
  /\ UNCHANGED <<conversations, broker_listeners>>
  /\ WsFrame

\* "data = await websocket.receive_json()": a message, WebSocketDisconnect,
\* or another error (a text that is no JSON, a closed connection)
ReceiveJson(h) ==
  /\ HandlerAt(h, "receive_json")
  /\ \/ handlers' = [handlers EXCEPT ![h].at = "create_task"]
     \/ handlers' = [handlers EXCEPT ![h].at = "except"]
     \/ handlers' = [handlers EXCEPT ![h].at = "finally", ![h].raised = "Error"]
  /\ UNCHANGED <<conversations, broker_listeners>>
  /\ WsFrame

\* "runnable = ...validate_python(data['runnable']); await conversation.create_task(...)":
\* the task is created, or the validation or the creation raises
CreateTask(h) ==
  /\ HandlerAt(h, "create_task")
  /\ \/ handlers' = [handlers EXCEPT ![h].at = "while"]
     \/ handlers' = [handlers EXCEPT ![h].at = "finally", ![h].raised = "Error"]
  /\ UNCHANGED <<conversations, broker_listeners>>
  /\ WsFrame

\* "await asyncio.sleep(1)" of fire_hose: it returns, or the task is cancelled
Sleep(h) ==
  /\ HandlerAt(h, "sleep")
  /\ \/ handlers' = [handlers EXCEPT ![h].at = "while"]
     \/ handlers' = [handlers EXCEPT ![h].at = "finally", ![h].raised = "CancelledError"]
  /\ UNCHANGED <<conversations, broker_listeners>>
  /\ WsFrame

\* "except WebSocketDisconnect as e: _LOGGER.debug('websocket_closed')"
Except(h) ==
  /\ HandlerAt(h, "except")
  /\ handlers' = [handlers EXCEPT ![h].at = "finally"]
  /\ UNCHANGED <<conversations, broker_listeners>>
  /\ WsFrame

\* variant of Finally that ends the handler without removing the listener
\* when an exception is on its way out
Finally_OnlyOnReturn(h) ==
  /\ HandlerAt(h, "finally")
  /\ handlers' = [handlers EXCEPT ![h].at = "returned"]
  /\ IF handlers[h].raised # "" THEN UNCHANGED <<conversations, broker_listeners>>
     ELSE IF handlers[h].kind = "fire_hose"
     THEN broker_listeners' = broker_listeners \ {handlers[h].listener_id}
          /\ UNCHANGED conversations
     ELSE conversations' = [conversations EXCEPT ![handlers[h].conv] = @ \ {handlers[h].listener_id}]
          /\ UNCHANGED broker_listeners
  /\ WsFrame

\* "finally: await conversation.remove_listener(listener_id)", and
\* "finally: await conversation_broker.remove_listener(listener_id)" of
\* fire_hose; then the handler returns or the exception goes on
Finally(h) ==
  /\ HandlerAt(h, "finally")
  /\ handlers' = [handlers EXCEPT ![h].at = "returned"]
  /\ IF handlers[h].kind = "fire_hose"
     THEN broker_listeners' = broker_listeners \ {handlers[h].listener_id}
          /\ UNCHANGED conversations
     ELSE conversations' = [conversations EXCEPT ![handlers[h].conv] = @ \ {handlers[h].listener_id}]
          /\ UNCHANGED broker_listeners
  /\ WsFrame

NextWs ==
  \/ create_conversation
  \/ \E h \in Handlers :
       \/ WsOpen(h) \/ Accept(h) \/ CreateConversation(h) \/ GetConversation(h)
       \/ AddListener(h) \/ SearchConversations(h) \/ GetConversations(h)
       \/ AfterCreateConversation(h) \/ PendingCompletes(h) \/ NextPage(h)
       \/ BrokerAddListener(h) \/ ApplicationDisconnected(h) \/ While(h)
       \/ ReceiveJson(h) \/ CreateTask(h) \/ Sleep(h) \/ Except(h) \/ Finally(h)

SpecWs == InitWs /\ [][NextWs]_vars

\* the event loop runs a handler that can go on without waiting for the
\* client: the except clause and the finally clause are not left undone
SpecWsFair ==
  SpecWs /\ \A h \in Handlers : WF_vars(Except(h)) /\ WF_vars(Finally(h))

-----------------------------------------------------------------------------
(* Properties of the load sequence (specification Spec)                    *)

\* load_app_config has returned the aggregate
Loaded == pc = "done"

\* the scalar entries of the document's section of a kind (its default group)
DocScalars(cls) ==
  IF toml.state = "ok" /\ SectionName(cls) \in DOMAIN toml.tbl
     /\ toml.tbl[SectionName(cls)].isdict
  THEN NonDictFields(toml.tbl[SectionName(cls)].tbl)
  ELSE EmptyMap

\* the named groups of the document's section of a kind
DocGroups(cls) ==
  IF toml.state = "ok" /\ SectionName(cls) \in DOMAIN toml.tbl
     /\ toml.tbl[SectionName(cls)].isdict
  THEN [k \in GroupKeys(cls, toml.tbl[SectionName(cls)].tbl) |->
          toml.tbl[SectionName(cls)].tbl[k].tbl]
  ELSE EmptyMap

\* the fields of the resolved default group of a kind
Resolved(cls) ==
  CASE cls = "SandboxConfig" -> heap[cfg.sandbox].d
    [] cls = "SecurityConfig" -> heap[cfg.security].d
    [] OTHER -> heap[MapOf(cfg, cls)[DefaultKey(cls)]].d

EnvName(cls, f) == EnvPrefix(cls) \o Upper(f)

\* the environment has a non-empty PREFIX_F
EnvHas(cls, f) == EnvName(cls, f) \in DOMAIN environ /\ environ[EnvName(cls, f)].s # <<>>

KindSet == {DomainKinds[i] : i \in 1..Len(DomainKinds)}

\* C1: for every field f of every domain kind, a value the document gives f
\* in the kind's default group, with no non-empty PREFIX_F in the
\* environment, is the resolved default-group value of f after the full load.
C1_DocumentValueKept ==
  Loaded =>
    \A cls \in KindSet : \A f \in Fields(cls) :
      (f \in DOMAIN DocScalars(cls) /\ ~EnvHas(cls, f)) =>
        Resolved(cls)[f] = DocScalars(cls)[f]

\* C1 for the two kinds the environment pass updates in place
C1_SingletonKinds ==
  Loaded =>
    \A cls \in {"SandboxConfig", "SecurityConfig"} : \A f \in Fields(cls) :
      (f \in DOMAIN DocScalars(cls) /\ ~EnvHas(cls, f)) =>
        Resolved(cls)[f] = DocScalars(cls)[f]

\* the value a non-empty PREFIX_F is cast to ([v, exc])
EnvCast(cls, f) == cast_value(FieldType(cls, f), environ[EnvName(cls, f)])

\* C2 as stated: for every field f of every domain kind, a non-empty PREFIX_F
\* of the environment is, cast to the field's type, the resolved
\* default-group value of f after the full load, whatever the document says.
C2_EnvironmentWins_AllFields ==
  Loaded =>
    \A cls \in KindSet : \A f \in Fields(cls) :
      EnvHas(cls, f) => Resolved(cls)[f] = EnvCast(cls, f).v

\* C2: for every field f of every domain kind other than the two
\* cross-reference fields of Agent (llm_config, memory_config), a non-empty
\* PREFIX_F of the environment is, cast to the field's type, the resolved
\* default-group value of f after the full load, whatever the document says.
C2_EnvironmentWins ==
  Loaded =>
    \A cls \in KindSet : \A f \in Fields(cls) \ EnvSkipped(cls) :
      EnvHas(cls, f) => Resolved(cls)[f] = EnvCast(cls, f).v

\* a completed load where the environment and the document both give a field
\* of a kind and the environment's value is the resolved one
C2_Witness ==
  /\ Loaded
  /\ \E cls \in KindSet : \E f \in Fields(cls) \ EnvSkipped(cls) :
       /\ EnvHas(cls, f)
       /\ f \in DOMAIN DocScalars(cls)
       /\ DocScalars(cls)[f] # EnvCast(cls, f).v
       /\ Resolved(cls)[f] = EnvCast(cls, f).v

\* the top-level scalar fields of the aggregate
TopFields == Fields("AppConfig") \ EnvSkipped("AppConfig")

HasCore == toml.state = "ok" /\ "core" \in DOMAIN toml.tbl /\ toml.tbl["core"].isdict

\* the scalar entries of the document's core section
CoreScalars == IF HasCore THEN NonDictFields(toml.tbl["core"].tbl) ELSE EmptyMap

\* the document is read the old way: it has entries and no core section
FlatDocument == toml.state = "ok" /\ DOMAIN toml.tbl # {} /\ "core" \notin DOMAIN toml.tbl

\* the document, read the old way, gives a non-empty value under the
\* uppercased name of the top-level field
FlatHas(f) ==
  /\ FlatDocument
  /\ Upper(f) \in DOMAIN toml.tbl
  /\ ~toml.tbl[Upper(f)].isdict
  /\ Truthy(toml.tbl[Upper(f)].val)

FlatCast(f) == cast_value(FieldType("AppConfig", f), toml.tbl[Upper(f)].val)

\* C3 as stated: every top-level scalar field of the aggregate is, after the
\* full load, the cast environment value if the uppercased field name is
\* present and non-empty in the environment, otherwise the value of the
\* document's core section if it has one for the field, otherwise the
\* compiled default.
C3_TopLevelPrecedence_AsStated ==
  Loaded =>
    \A f \in TopFields :
      cfg.f[f] = IF EnvHas("AppConfig", f) THEN EnvCast("AppConfig", f).v
                 ELSE IF f \in DOMAIN CoreScalars THEN CoreScalars[f]
                 ELSE FieldDefault("AppConfig", f)

\* C3: every top-level scalar field of the aggregate other than
\* workspace_base and workspace_mount_path (which finalization rewrites) is,
\* after the full load, the cast environment value if the uppercased field
\* name is present and non-empty in the environment and the cast succeeds;
\* otherwise the value of the document's core section if it has one for the
\* field; otherwise, for a document without a core section, the cast value of
\* the document's non-empty top-level entry under the uppercased field name
\* if the cast succeeds; otherwise the compiled default.
C3_TopLevelPrecedence ==
  Loaded =>
    \A f \in TopFields \ {"workspace_base", "workspace_mount_path"} :
      cfg.f[f] = IF EnvHas("AppConfig", f) /\ EnvCast("AppConfig", f).exc = ""
                 THEN EnvCast("AppConfig", f).v
                 ELSE IF f \in DOMAIN CoreScalars THEN CoreScalars[f]
                 ELSE IF FlatHas(f) /\ FlatCast(f).exc = "" THEN FlatCast(f).v
                 ELSE FieldDefault("AppConfig", f)

\* a completed load where the core section and the environment both give a
\* top-level field and the environment's value is the one kept
C3_Witness ==
  /\ Loaded
  /\ \E f \in TopFields \ {"workspace_base", "workspace_mount_path"} :
       /\ EnvHas("AppConfig", f) /\ EnvCast("AppConfig", f).exc = ""
       /\ f \in DOMAIN CoreScalars
       /\ CoreScalars[f] # EnvCast("AppConfig", f).v
       /\ cfg.f[f] = EnvCast("AppConfig", f).v

\* the value the document's default group of a kind has for a field
DocDefault(cls, f) ==
  IF f \in DOMAIN DocScalars(cls) THEN DocScalars(cls)[f] ELSE FieldDefault(cls, f)

\* the fields of the named group g of a kind held by the aggregate
GroupFields(cls, g) == heap[MapOf(cfg, cls)[g]].d

\* C4 as stated: a named LLM, Memory or Agent group of the document that does
\* not set field f has, after the full load, the merged default-group value of
\* f: the environment value if supplied, else the document's default-group
\* value, else the compiled default.
C4_NamedGroupMerged_AsStated ==
  Loaded =>
    \A cls \in Kinds : \A g \in DOMAIN DocGroups(cls) :
      \A f \in Fields(cls) \ DOMAIN DocGroups(cls)[g] :
        /\ g \in DOMAIN MapOf(cfg, cls)
        /\ GroupFields(cls, g)[f] = IF EnvHas(cls, f) THEN EnvCast(cls, f).v
                                    ELSE DocDefault(cls, f)

\* C4: a named LLM, Memory or Agent group of the document that does not set
\* field f has, after the full load, the value of f in the document's default
\* group (the section's entry, else the compiled default), whatever the
\* environment supplies.
C4_NamedGroupFromDocument ==
  Loaded =>
    \A cls \in Kinds : \A g \in DOMAIN DocGroups(cls) :
      \A f \in Fields(cls) \ DOMAIN DocGroups(cls)[g] :
        /\ g \in DOMAIN MapOf(cfg, cls)
        /\ GroupFields(cls, g)[f] = DocDefault(cls, f)

\* a completed load where the environment supplies a field that a named group
\* leaves to the default group, and the group has the document's value
C4_Witness ==
  /\ Loaded
  /\ \E cls \in Kinds : \E g \in DOMAIN DocGroups(cls) :
       \E f \in Fields(cls) \ DOMAIN DocGroups(cls)[g] :
         /\ EnvHas(cls, f) /\ EnvCast(cls, f).exc = ""
         /\ f \in DOMAIN DocScalars(cls)
         /\ EnvCast(cls, f).v # DocScalars(cls)[f]
         /\ GroupFields(cls, g)[f] = DocScalars(cls)[f]

\* C5: after the document pass, every named group of the LLM, Memory and
\* Agent sections has, for each field, the group's own entry if it has one
\* and otherwise the value of the default group built from the same document
\* (declared default overridden by the section's scalar entry).
C5_NamedGroupInheritance ==
  pc = "toml_done" =>
    \A cls \in Kinds : \A g \in DOMAIN DocGroups(cls) :
      /\ g \in DOMAIN MapOf(cfg, cls)
      /\ \A f \in Fields(cls) :
           GroupFields(cls, g)[f] = IF f \in DOMAIN DocGroups(cls)[g]
                                    THEN EntryVal(DocGroups(cls)[g][f])
                                    ELSE DocDefault(cls, f)

\* the document pass has read default {model: A, timeout: 10} with the group
\* g1 {model: B}, and g1 is {model: B, timeout: 10}
C5_Witness ==
  /\ pc = "toml_done"
  /\ DocScalars("LLMConfig") = [model |-> PyTok("A"), timeout |-> PyInt(10)]
  /\ DOMAIN DocGroups("LLMConfig") = {"g1"}
  /\ DocGroups("LLMConfig")["g1"] = [model |-> Sc(PyTok("B"))]
  /\ GroupFields("LLMConfig", "g1")["model"] = PyTok("B")
  /\ GroupFields("LLMConfig", "g1")["timeout"] = PyInt(10)

-----------------------------------------------------------------------------
(* Properties of the accessors and of the display (specification SpecApi)  *)

\* the names a caller passes as a str
StrNames(cls) == {n \in GetNames(cls) : n.t = "str"}

\* C6: for LLM, Memory and Agent, a get(kind, name) with a name that is not
\* in the kind's map does not raise and returns the very instance that
\* get(kind) with the default key returns, in every state reached by loads,
\* gets and sets.
C6_FallbackToDefaultGroup ==
  [][\A cls \in Kinds : \A name \in GetNames(cls) :
       (op' = <<"get", cls, name>> /\ ~NameIn(name, MapOf(cfg, cls))) =>
         /\ exc' = ""
         /\ result' = PyRef(GetConfig(World', cls, PyTok(DefaultKey(cls))).a)
         /\ DefaultKey(cls) \in DOMAIN MapOf(cfg', cls)
         /\ result' = PyRef(MapOf(cfg', cls)[DefaultKey(cls)])]_vars

\* a get of the absent name "nope" after a named group was added has returned
\* the default group
C6_Witness ==
  /\ op = <<"get", "MemoryConfig", PyTok("nope")>>
  /\ "g1" \in DOMAIN cfg.memories
  /\ "nope" \notin DOMAIN cfg.memories
  /\ result = PyRef(cfg.memories["memory"])
  /\ exc = ""

\* C7: for LLM, Memory and Agent, a get(kind, name) logs exactly one warning
\* when name is absent from the kind's map and differs from the default key,
\* and no warning when name is the default key or is present in the map.
C7_FallbackWarnsOnce ==
  [][\A cls \in Kinds : \A name \in StrNames(cls) :
       op' = <<"get", cls, name>> =>
         Len(warns') = IF ~NameIn(name, MapOf(cfg, cls)) /\ name # PyTok(DefaultKey(cls))
                       THEN 1 ELSE 0]_vars

\* C7 for the two kinds whose accessor logs the fallback
C7_LLMAndMemoryWarnOnce ==
  [][\A cls \in {"LLMConfig", "MemoryConfig"} : \A name \in StrNames(cls) :
       op' = <<"get", cls, name>> =>
         Len(warns') = IF ~NameIn(name, MapOf(cfg, cls)) /\ name # PyTok(DefaultKey(cls))
                       THEN 1 ELSE 0]_vars

\* the names of the sensitive fields of the kinds and of the aggregate
SensitiveNames ==
  {"api_key", "aws_access_key_id", "aws_secret_access_key", "e2b_api_key", "jwt_secret"}

RECURSIVE FieldAt(_, _)
\* the value field access gives for the path of fields from the instance at a
FieldAt(a, path) ==
  IF Len(path) = 1 THEN heap[a].d[path[1]] ELSE FieldAt(heap[a].d[path[1]].n, Tail(path))

\* the value field access gives for a path shown by str(config)
AppFieldAt(path) ==
  CASE Len(path) = 1 -> cfg.f[path[1]]
    [] path[1] = "llms" -> FieldAt(cfg.llms[path[2]], SubSeq(path, 3, Len(path)))
    [] path[1] = "agents" -> FieldAt(cfg.agents[path[2]], SubSeq(path, 3, Len(path)))
    [] path[1] = "memories" -> FieldAt(cfg.memories[path[2]], SubSeq(path, 3, Len(path)))
    [] path[1] = "sandbox" -> FieldAt(cfg.sandbox, Tail(path))
    [] path[1] = "security" -> FieldAt(cfg.security, Tail(path))

\* the display shows the true, non-empty value
Reveals(shown, true) == Truthy(true) /\ shown = true

\* C8: no display of an instance or of the aggregate (str/repr, safe view)
\* contains the true non-empty value of a sensitive field (LLM api_key,
\* aws_access_key_id, aws_secret_access_key, Memory api_key, the aggregate's
\* e2b_api_key and jwt_secret).
C8_NoSecretDisplayed ==
  /\ op[1] = "str" =>
       \A part \in result :
         part[1][Len(part[1])] \in SensitiveNames => ~Reveals(part[2], FieldAt(op[2], part[1]))
  /\ op[1] = "str_app" =>
       \A part \in result :
         part[1][Len(part[1])] \in SensitiveNames => ~Reveals(part[2], AppFieldAt(part[1]))
  /\ op[1] = "to_safe_dict" =>
       \A k \in DOMAIN result \cap SensitiveNames : ~Reveals(result[k], heap[op[2]].d[k])

\* C8 for the displays that mask: str and the safe view of an LLM instance,
\* and the top-level fields of str(config)
C8_LLMAndTopLevelMasked ==
  /\ (op[1] = "str" /\ heap[op[2]].cls = "LLMConfig") =>
       \A part \in result :
         part[1][Len(part[1])] \in SensitiveNames => ~Reveals(part[2], FieldAt(op[2], part[1]))
  /\ op[1] = "str_app" =>
       \A part \in result :
         (part[1][Len(part[1])] \in SensitiveNames /\ part[1][1] # "memories") =>
           ~Reveals(part[2], AppFieldAt(part[1]))
  /\ op[1] = "to_safe_dict" =>
       \A k \in DOMAIN result \cap SensitiveNames : ~Reveals(result[k], heap[op[2]].d[k])

\* the value is empty or unset
Empty(v) == v = PyNone \/ v = PyStr(<<>>)

\* C9: the safe view of an LLM instance has exactly the instance's fields;
\* a non-sensitive field has the instance's value, a sensitive field has the
\* mask token when its true value is non-empty and None when it is empty or
\* unset.
C9_SafeView ==
  op[1] = "to_safe_dict" =>
    /\ DOMAIN result = DOMAIN heap[op[2]].d
    /\ \A k \in DOMAIN result :
         result[k] = IF k \notin {"api_key", "aws_access_key_id", "aws_secret_access_key"}
                     THEN heap[op[2]].d[k]
                     ELSE IF Empty(heap[op[2]].d[k]) THEN PyNone ELSE PyTok("******")

\* a safe view of an instance with a set api_key, an empty or unset sensitive
\* field and an ordinary field
C9_Witness ==
  /\ op[1] = "to_safe_dict"
  /\ \E k \in LLM_SENSITIVE_FIELDS \cap DOMAIN result :
       ~Empty(heap[op[2]].d[k]) /\ result[k] = MASK
  /\ \E k \in LLM_SENSITIVE_FIELDS \cap DOMAIN result :
       Empty(heap[op[2]].d[k]) /\ result[k] = PyNone
  /\ result["model"] = PyTok("A")

\* C10: a to_safe_dict or str call leaves every field of every live instance
\* and the aggregate's maps and fields as they were.
C10_DisplayWritesNothing ==
  [][op'[1] \in {"to_safe_dict", "str", "str_app"} => (heap' = heap /\ cfg' = cfg)]_vars

\* after a safe view that masked the api_key, field access still gives the key
C10_Witness ==
  /\ op[1] = "to_safe_dict"
  /\ result["api_key"] = MASK
  /\ heap[op[2]].d["api_key"] = PyTok("sk-doc")
  /\ \E k \in DOMAIN cfg.llms : cfg.llms[k] = op[2]

-----------------------------------------------------------------------------
(* Properties of the document pass (specification Spec)                    *)

\* C11: after the document pass, every Sandbox field set both by a
\* core.sandbox_<field> key and by sandbox.<field> has the value of the
\* sandbox section (the legacy key is migrated first, the section applied
\* afterwards).
C11_SectionOverridesLegacy ==
  pc = "toml_done" =>
    \A f \in Fields("SandboxConfig") :
      ("sandbox_" \o f \in DOMAIN CoreScalars /\ f \in DOMAIN DocScalars("SandboxConfig")) =>
        Resolved("SandboxConfig")[f] = DocScalars("SandboxConfig")[f]

\* the document pass has read {core: {sandbox_timeout: 5}, sandbox: {timeout: 9}}
\* and the timeout is 9
C11_Witness ==
  /\ pc = "toml_done"
  /\ "sandbox_timeout" \in DOMAIN CoreScalars
  /\ CoreScalars["sandbox_timeout"] = PyInt(5)
  /\ DocScalars("SandboxConfig") = [timeout |-> PyInt(9)]
  /\ Resolved("SandboxConfig")["timeout"] = PyInt(9)

\* the keys of the core section that legacy migration takes
LegacyCoreKeys == {k \in DOMAIN CoreScalars : StartsWithSandbox(k)}

\* the key without its prefix sandbox_
StripSandbox(k) == CHOOSE x \in KeyNames : k = "sandbox_" \o x

\* a core.sandbox_<field> key or the sandbox section sets the Sandbox field
SandboxTargeted(f) ==
  "sandbox_" \o f \in DOMAIN CoreScalars \/ f \in DOMAIN DocScalars("SandboxConfig")

\* what C12 asks of the legacy key k
LegacyKeyMigrated(k) ==
  IF StripSandbox(k) \in Fields("SandboxConfig")
  THEN StripSandbox(k) \notin DOMAIN DocScalars("SandboxConfig") =>
         Resolved("SandboxConfig")[StripSandbox(k)] = CoreScalars[k]
  ELSE /\ <<"unknown_sandbox_config", k>> \in Range(warns)
       /\ DOMAIN Resolved("SandboxConfig") = Fields("SandboxConfig")
       /\ \A f \in Fields("SandboxConfig") :
            ~SandboxTargeted(f) => Resolved("SandboxConfig")[f] = FieldDefault("SandboxConfig", f)

\* C12: after the document pass, every core key sandbox_<name> has set the
\* Sandbox field <name> when <name> (the key without the prefix) is a
\* declared Sandbox field; otherwise it has produced an unknown-key warning
\* and changed no field or attribute of the Sandbox singleton.
C12_LegacyMigration ==
  pc = "toml_done" => \A k \in LegacyCoreKeys : LegacyKeyMigrated(k)

\* C12 for the documents whose legacy keys, once stripped, hold no further
\* sandbox_ and name no method of SandboxConfig
C12_PlainLegacyKeys ==
  (/\ pc = "toml_done"
   /\ \A k \in LegacyCoreKeys :
        ~StartsWithSandbox(StripSandbox(k)) /\ StripSandbox(k) \notin Methods("SandboxConfig"))
    => \A k \in LegacyCoreKeys : LegacyKeyMigrated(k)

\* the top-level keys of the document that name no section
UnknownTopKeys ==
  IF toml.state = "ok"
  THEN DOMAIN toml.tbl \ {"core", "llm", "agent", "memory", "sandbox", "security"}
  ELSE {}

\* the scalar entries of the sections of LLM, Memory and Agent that name no
\* declared field
UndeclaredSectionKeys(cls) == DOMAIN DocScalars(cls) \ Fields(cls)

\* the document pass that starts here ends without an exception, with the
\* default group of every kind loaded and a warning for each unknown
\* top-level key
UnknownTopKeysOnlyWarned ==
  /\ pc' = "toml_done"
  /\ exc' = ""
  /\ \A cls \in Kinds : DefaultKey(cls) \in DOMAIN MapOf(cfg', cls)
  /\ \A k \in UnknownTopKeys : <<"unknown_key_in_config", k>> \in Range(warns')

\* C13: for every document with a top-level key that is none of core, llm,
\* agent, memory, sandbox, security, the document loader does not raise,
\* loads every recognized section and records an unknown-key warning for
\* that key.
C13_UnknownTopLevelKey ==
  [][(pc = "start" /\ UnknownTopKeys # {}) => UnknownTopKeysOnlyWarned]_vars

\* C13 for the documents whose LLM, Memory and Agent sections hold declared
\* fields only
C13_DeclaredSections ==
  [][(pc = "start" /\ UnknownTopKeys # {}
      /\ \A cls \in Kinds : UndeclaredSectionKeys(cls) = {}) => UnknownTopKeysOnlyWarned]_vars

\* the entries of the section of a kind, and of its named groups, that name
\* no declared field of the kind
UnknownEntries(cls) ==
  (DOMAIN DocScalars(cls) \ Fields(cls))
    \cup (IF cls \in Kinds
          THEN UNION {DOMAIN DocGroups(cls)[g] \ Fields(cls) : g \in DOMAIN DocGroups(cls)}
          ELSE {})

\* the document pass that starts here ends without an exception and with a
\* warning about each of the keys
OnlyWarnedAbout(keys) ==
  /\ pc' = "toml_done"
  /\ exc' = ""
  /\ \A k \in keys : \E i \in 1..Len(warns') : warns'[i][2] = k

\* C14: an entry of the llm, memory, agent, sandbox or security section (or
\* of one of their named groups) that names no declared field of the kind
\* only produces a warning: the document loader does not raise and the load
\* goes on.
C14_UnknownSectionKey ==
  [][\A cls \in KindSet :
       (pc = "start" /\ UnknownEntries(cls) # {}) => OnlyWarnedAbout(UnknownEntries(cls))]_vars

\* C14 for the sections of the two singleton kinds
C14_SingletonSections ==
  [][\A cls \in {"SandboxConfig", "SecurityConfig"} :
       (pc = "start" /\ UnknownEntries(cls) # {}) => OnlyWarnedAbout(UnknownEntries(cls))]_vars

-----------------------------------------------------------------------------
(* Properties of the environment pass (specification Spec)                 *)

\* the fields of the domain kinds whose non-empty environment value cannot be
\* cast to the declared type, as <<cls, f>>
DomainCastFailures ==
  {p \in UNION {{<<cls, f>> : f \in Fields(cls) \ EnvSkipped(cls)} : cls \in KindSet} :
     EnvHas(p[1], p[2]) /\ EnvCast(p[1], p[2]).exc # ""}

\* C15: when the environment value of a field of a domain kind cannot be cast
\* to the declared type, the environment pass does not raise, logs a warning,
\* leaves the field at its default and loads every other field it supplies.
C15_DomainCastFailureWarned ==
  [][(pc = "toml_done" /\ DomainCastFailures # {}) =>
       /\ pc' = "env_done"
       /\ exc' = ""
       /\ Len(warns') > Len(warns)
       /\ \A cls \in KindSet : \A f \in Fields(cls) \ EnvSkipped(cls) :
            /\ <<cls, f>> \in DomainCastFailures => Resolved(cls)'[f] = FieldDefault(cls, f)
            /\ (EnvHas(cls, f) /\ <<cls, f>> \notin DomainCastFailures) =>
                 Resolved(cls)'[f] = EnvCast(cls, f).v]_vars

\* the environment pass never completes when a field of a domain kind has an
\* environment value that cannot be cast: it raises the cast's ValueError
C15_DomainCastFailureRaises ==
  [][(pc = "toml_done" /\ DomainCastFailures # {}) =>
       (pc' = "raised" /\ exc' = "ValueError")]_vars

\* the top-level fields whose non-empty environment value cannot be cast
TopCastFailures ==
  {f \in TopFields : EnvHas("AppConfig", f) /\ EnvCast("AppConfig", f).exc # ""}

\* the environment pass that starts here does not raise, warns about each
\* top-level field whose cast fails and leaves it as it was, sets every other
\* top-level field the environment supplies, and stores for LLM, Memory and
\* Agent a default group loaded from the environment
TopCastFailuresOnlyWarned ==
  /\ pc' = "env_done"
  /\ exc' = ""
  /\ \A f \in TopCastFailures :
       cfg'.f[f] = cfg.f[f] /\ <<"error_setting", f>> \in Range(warns')
  /\ \A f \in TopFields \ TopCastFailures :
       cfg'.f[f] = IF EnvHas("AppConfig", f) THEN EnvCast("AppConfig", f).v ELSE cfg.f[f]
  /\ \A cls \in Kinds : \A f \in Fields(cls) \ EnvSkipped(cls) :
       Resolved(cls)'[f] = IF EnvHas(cls, f) THEN EnvCast(cls, f).v ELSE FieldDefault(cls, f)

\* C16: in the environment pass of the aggregate, a cast failure on a
\* top-level scalar field is caught and only warned: the call does not raise,
\* the field keeps the value it had, and every other top-level field and
\* every domain kind is still loaded from the environment.
C16_TopLevelCastFailureWarned ==
  [][(pc = "toml_done" /\ TopCastFailures # {}) => TopCastFailuresOnlyWarned]_vars

\* C16 for the environments in which no field of a domain kind fails its cast
C16_NoDomainCastFailure ==
  [][(pc = "toml_done" /\ TopCastFailures # {} /\ DomainCastFailures = {})
       => TopCastFailuresOnlyWarned]_vars

-----------------------------------------------------------------------------
(* Properties of finalization                                              *)

\* the fields of every instance of a map, by group name
MapFields(m) == [k \in DOMAIN m |-> heap[m[k]].d]

\* what is observable of the aggregate: the two workspace paths, the fields of
\* the groups of every kind (the default Memory group among them)
Observable ==
  [workspace_base |-> cfg.f["workspace_base"],
   workspace_mount_path |-> cfg.f["workspace_mount_path"],
   llms |-> MapFields(cfg.llms),
   agents |-> MapFields(cfg.agents),
   memories |-> MapFields(cfg.memories)]

\* C17: finalization is idempotent: from every aggregate that loads and
\* setter calls have prepared, a second finalize_config right after a first
\* leaves the workspace paths, the default Memory group and the maps of all
\* kinds as the first left them.
C17_FinalizeIdempotent ==
  [][(op = <<"finalize_config">> /\ op' = <<"finalize_config">>) =>
       Observable' = Observable]_vars

\* a second finalization has run on an aggregate whose default LLM group
\* carries the legacy embedding fields: the deployment name, copied by the
\* first, is not copied again (two deprecation warnings instead of three)
C17_Witness ==
  /\ op = <<"finalize_config">>
  /\ exc = ""
  /\ "llm" \in DOMAIN cfg.llms /\ "memory" \in DOMAIN cfg.memories
  /\ "embedding_deployment_name" \in DOMAIN heap[cfg.llms["llm"]].d
  /\ heap[cfg.memories["memory"]].d["embedding_deployment_name"] = PyTok("legacy-dep")
  /\ heap[cfg.memories["memory"]].d["embedding_model"] = PyTok("legacy-model")
  /\ Len(warns) = 2

-----------------------------------------------------------------------------
(* Properties of the workspace paths after the full load                   *)

\* the value the load passes give a top-level field: environment, then the
\* document's core section, then the document read the old way, then the
\* compiled default
TopPrecedence(f) ==
  IF EnvHas("AppConfig", f) /\ EnvCast("AppConfig", f).exc = ""
  THEN EnvCast("AppConfig", f).v
  ELSE IF f \in DOMAIN CoreScalars THEN CoreScalars[f]
  ELSE IF FlatHas(f) /\ FlatCast(f).exc = "" THEN FlatCast(f).v
  ELSE FieldDefault("AppConfig", f)

\* no load pass was given the top-level field
NeverSet(f) ==
  /\ ~EnvHas("AppConfig", f)
  /\ f \notin DOMAIN CoreScalars
  /\ ~FlatHas(f)

\* the absolute form of a path: the path itself if it starts at the root,
\* otherwise the path below the working directory
AbsoluteForm(s) ==
  IF s # <<>> /\ Head(s) = "/" THEN s
  ELSE IF s = <<>> THEN Cwd
  ELSE Cwd \o <<"/">> \o s

\* C18: if no load pass set the workspace mount path and no rewrite rule is
\* configured, then after finalization workspace_base is the absolute form
\* of the base path the load passes gave, and workspace_mount_path equals it.
C18_MountPathDefault ==
  (Loaded /\ NeverSet("workspace_mount_path")
          /\ ~Truthy(TopPrecedence("workspace_mount_rewrite"))) =>
    /\ cfg.f["workspace_base"] = PyStr(AbsoluteForm(TopPrecedence("workspace_base").s))
    /\ cfg.f["workspace_mount_path"] = cfg.f["workspace_base"]
    /\ Head(cfg.f["workspace_base"].s) = "/"

\* a finalized load whose document gives the relative base path "ws", no
\* mount path and no rewrite rule: both paths are "/cwd/ws"
C18_Witness ==
  /\ Loaded
  /\ NeverSet("workspace_mount_path")
  /\ ~Truthy(TopPrecedence("workspace_mount_rewrite"))
  /\ TopPrecedence("workspace_base") = PyStr(<<"ws">>)
  /\ cfg.f["workspace_mount_path"] = PyStr(Cwd \o <<"/", "ws">>)

RECURSIVE ReplaceFirst(_, _, _)
\* the sequence with its first occurrence of old replaced by new, later
\* occurrences left as they are
ReplaceFirst(s, old, new) ==
  IF old = <<>> THEN new \o s
  ELSE IF Len(s) < Len(old) THEN s
  ELSE IF SubSeq(s, 1, Len(old)) = old
       THEN new \o SubSeq(s, Len(old) + 1, Len(s))
       ELSE <<s[1]>> \o ReplaceFirst(Tail(s), old, new)

RECURSIVE Occurrences(_, _)
\* the number of non-overlapping occurrences of the non-empty old in s
Occurrences(s, old) ==
  IF Len(s) < Len(old) THEN 0
  ELSE IF SubSeq(s, 1, Len(old)) = old
       THEN 1 + Occurrences(SubSeq(s, Len(old) + 1, Len(s)), old)
       ELSE Occurrences(Tail(s), old)

\* the rewrite rule the load passes configured, as <<from, to>>
RewriteRule == py_split(TopPrecedence("workspace_mount_rewrite").s, ":")

\* a rewrite rule "from:to" is configured
RewriteConfigured ==
  /\ TopPrecedence("workspace_mount_rewrite").t = "str"
  /\ Truthy(TopPrecedence("workspace_mount_rewrite"))
  /\ Len(RewriteRule) = 2

\* C19: when a rewrite rule "from:to" is configured, the finalized
\* workspace_mount_path is the absolute workspace base path with the first
\* occurrence of from replaced by to; later occurrences of from are left as
\* they are.
C19_RewriteFirstOccurrence ==
  (Loaded /\ RewriteConfigured) =>
    /\ cfg.f["workspace_base"] = PyStr(AbsoluteForm(TopPrecedence("workspace_base").s))
    /\ cfg.f["workspace_mount_path"] =
         PyStr(ReplaceFirst(cfg.f["workspace_base"].s, RewriteRule[1], RewriteRule[2]))

\* the same when from occurs at most once in the absolute base path
C19_SingleOccurrence ==
  (Loaded /\ RewriteConfigured
          /\ Occurrences(AbsoluteForm(TopPrecedence("workspace_base").s), RewriteRule[1]) <= 1) =>
    /\ cfg.f["workspace_base"] = PyStr(AbsoluteForm(TopPrecedence("workspace_base").s))
    /\ cfg.f["workspace_mount_path"] =
         PyStr(ReplaceFirst(cfg.f["workspace_base"].s, RewriteRule[1], RewriteRule[2]))

-----------------------------------------------------------------------------
(* Properties of the embedding compatibility shim                          *)

LegacyEmbeddingFields == {"embedding_base_url", "embedding_model", "embedding_deployment_name"}

\* the legacy embedding fields the document gives in its llm section, the
\* section of the default LLM group
LegacyDocKeys == DOMAIN DocScalars("LLMConfig") \cap LegacyEmbeddingFields

\* the default LLM group carries the values the document gives for the keys
DefaultLLMCarries(keys) ==
  /\ "llm" \in DOMAIN cfg.llms
  /\ \A k \in keys :
       /\ k \in DOMAIN heap[cfg.llms["llm"]].d
       /\ heap[cfg.llms["llm"]].d[k] = DocScalars("LLMConfig")[k]

\* C20: the default LLM group the document loader produces from an llm
\* section with legacy embedding fields carries them, so that finalization
\* reaches the shim: the document pass ends without an exception and the
\* default LLM group has the legacy fields of the document.
C20_LoadedLegacyFieldsReachShim ==
  [][(pc = "start" /\ LegacyDocKeys # {}) =>
       /\ pc' = "toml_done"
       /\ exc' = ""
       /\ DefaultLLMCarries(LegacyDocKeys)']_vars

\* every document pass over an llm section with a legacy embedding field
\* ends in TypeError
C20_LegacyFieldRejected ==
  [][(pc = "start" /\ LegacyDocKeys # {}) => (pc' = "raised" /\ exc' = "TypeError")]_vars

\* after the load passes no default LLM group carries a legacy embedding field
C20_NoLoadedDefaultCarries ==
  (pc \in {"toml_done", "env_done"} /\ "llm" \in DOMAIN cfg.llms) =>
    DOMAIN heap[cfg.llms["llm"]].d \cap LegacyEmbeddingFields = {}

\* the fields of the default group of a map
DefaultFields(m, k) == heap[m[k]].d

\* the number of deprecation warnings in a log
RECURSIVE Deprecations(_)
Deprecations(log) ==
  IF log = <<>> THEN 0
  ELSE (IF Head(log)[1] = "deprecated" THEN 1 ELSE 0) + Deprecations(Tail(log))

\* the legacy fields a finalization copies from LLM fields l to Memory fields m
Copied(l, m) ==
  {k \in DOMAIN l \cap LegacyEmbeddingFields :
     k = "embedding_deployment_name" => m["embedding_deployment_name"] = PyNone}

\* the shim itself: a finalize_config that ends without an exception, on an
\* aggregate with default LLM and Memory groups, copies each legacy field the
\* default LLM group carries onto the default Memory group (the deployment
\* name only when the Memory group has none), leaves the three Memory fields
\* alone otherwise, and logs one deprecation warning per copied field
C20_ShimApplied ==
  [][(pc = "fin" /\ op' = <<"finalize_config">> /\ exc' = ""
        /\ "llm" \in DOMAIN cfg.llms /\ "memory" \in DOMAIN cfg.memories) =>
       LET l == DefaultFields(cfg.llms, "llm")
           m == DefaultFields(cfg.memories, "memory")
           after == DefaultFields(cfg.memories, "memory")'
       IN /\ after["base_url"] =
               IF "embedding_base_url" \in Copied(l, m) THEN l["embedding_base_url"]
               ELSE m["base_url"]
          /\ after["embedding_model"] =
               IF "embedding_model" \in Copied(l, m) THEN l["embedding_model"]
               ELSE m["embedding_model"]
          /\ after["embedding_deployment_name"] =
               IF "embedding_deployment_name" \in Copied(l, m)
               THEN l["embedding_deployment_name"]
               ELSE m["embedding_deployment_name"]
          /\ Deprecations(warns') = Cardinality(Copied(l, m))]_vars

-----------------------------------------------------------------------------
(* Errors of finalization                                                  *)

\* C21: on every aggregate the load passes produce, whatever string
\* workspace_mount_rewrite holds, finalize_config either completes or raises
\* the failure to create the cache directory, and nothing else.
C21_OnlyCacheDirErrorPropagates ==
  [][(pc = "fin" /\ op' = <<"finalize_config">>) => exc' \in {"", "OSError"}]_vars

\* with a rewrite rule that is empty or has a ':' separator, finalize_config
\* raises nothing but the failure to create the cache directory
C21_RuleWithSeparator ==
  [][(pc = "fin" /\ op' = <<"finalize_config">>
        /\ (~Truthy(cfg.f["workspace_mount_rewrite"])
              \/ Len(py_split(cfg.f["workspace_mount_rewrite"].s, ":")) >= 2)) =>
       exc' \in {"", "OSError"}]_vars

-----------------------------------------------------------------------------
(* The load without a usable document (specification Spec)                 *)

\* config.toml is missing or cannot be parsed
NoDocument == toml.state \in {"missing", "malformed"}

\* the warning of the skipped document layer has been logged
DocumentWarned ==
  \E i \in 1..Len(warns) : warns[i][1] \in {"config_file_not_found", "cannot_parse_config"}

\* the environment pass does not set the field: no non-empty PREFIX_F, a field
\* the environment loader skips, or a value that cannot be cast
NotSetByEnv(cls, f) ==
  \/ ~EnvHas(cls, f)
  \/ f \in EnvSkipped(cls)
  \/ EnvCast(cls, f).exc # ""

\* every field, but the excepted top-level ones, that the environment does
\* not set holds its compiled default
DefaultsStand(except) ==
  /\ \A cls \in KindSet : \A f \in Fields(cls) :
       NotSetByEnv(cls, f) => Resolved(cls)[f] = FieldDefault(cls, f)
  /\ \A f \in TopFields \ except :
       NotSetByEnv("AppConfig", f) => cfg.f[f] = FieldDefault("AppConfig", f)

\* C22 as stated: when the document is missing or cannot be parsed, the
\* document layer is skipped with a warning and without an exception, and
\* after the environment pass and finalization every field the environment
\* does not set holds its compiled default.
C22_NoDocument_AsStated ==
  [][NoDocument =>
       /\ pc = "start" => (pc' = "toml_done" /\ exc' = "" /\ DocumentWarned')
       /\ pc' = "done" => DefaultsStand({})']_vars

\* C22: when the document is missing or cannot be parsed, the document layer
\* is skipped with a warning and without an exception, and after the
\* environment pass and finalization every field the environment does not
\* set, other than workspace_mount_path (which finalization derives from
\* workspace_base), holds its compiled default.
C22_NoDocument ==
  [][NoDocument =>
       /\ pc = "start" => (pc' = "toml_done" /\ exc' = "" /\ DocumentWarned')
       /\ pc' = "done" => DefaultsStand({"workspace_mount_path"})']_vars

\* a completed load without a document in which the environment sets one
\* field of the default LLM group and the other fields hold their defaults
C22_Witness ==
  /\ NoDocument
  /\ Loaded
  /\ DocumentWarned
  /\ EnvHas("LLMConfig", "model")
  /\ Resolved("LLMConfig")["model"] = EnvCast("LLMConfig", "model").v
  /\ Resolved("LLMConfig")["api_key"] = FieldDefault("LLMConfig", "api_key")
  /\ cfg.f["max_iterations"] = FieldDefault("AppConfig", "max_iterations")

-----------------------------------------------------------------------------
(* Properties of the cross-references (specification SpecRef)              *)

XrefField(cls) == IF cls = "LLMConfig" THEN "llm_config" ELSE "memory_config"

\* the cross-reference the agent of this name holds before the call: that of
\* the named agent, else that of the default agent, else (no agent at all, a
\* default agent is built) none
XrefOf(cls, name) ==
  IF name \in DOMAIN cfg.agents THEN heap[cfg.agents[name]].d[XrefField(cls)]
  ELSE IF "agent" \in DOMAIN cfg.agents THEN heap[cfg.agents["agent"]].d[XrefField(cls)]
  ELSE PyNone

\* the step returns the default group of the kind: the one the map holds, or,
\* if it holds none, a new instance of the declared defaults put in the map
ReturnsDefaultGroup(cls) ==
  IF DefaultKey(cls) \in DOMAIN MapOf(cfg, cls)
  THEN result' = PyRef(MapOf(cfg, cls)[DefaultKey(cls)])
  ELSE /\ result'.t = "ref"
       /\ result'.n \notin 1..Len(heap)
       /\ heap'[result'.n] = [cls |-> cls, d |-> Defaults(cls)]
       /\ MapOf(cfg, cls)'[DefaultKey(cls)] = result'.n

\* the step returns what the cross-reference x resolves to
ResolvesTo(cls, x) ==
  IF x.t = "ref" /\ heap[x.n].cls = cls THEN result' = x
  ELSE IF x.t = "str" /\ x.s[1] \in DOMAIN MapOf(cfg, cls)
  THEN result' = PyRef(MapOf(cfg, cls)[x.s[1]])
  ELSE ReturnsDefaultGroup(cls)

\* C23: resolving an agent's LLM cross-reference returns the inline instance
\* if llm_config holds one, else the group of that name if it holds a name
\* (the default group when the name is absent), else the default LLM group;
\* the same for memory_config and the Memory kind.
C23_CrossReferenceResolution ==
  [][\A cls \in {"LLMConfig", "MemoryConfig"} : \A name \in RefNames \cup {"nope"} :
       (pc = "ref" /\ op' = <<"resolve", cls, name>>) => ResolvesTo(cls, XrefOf(cls, name))]_vars

\* a resolution has returned the inline LLM instance of an agent, an
\* instance that no map of the aggregate holds
C23_Witness ==
  /\ op = <<"resolve", "LLMConfig", "g1">>
  /\ "g1" \in DOMAIN cfg.agents
  /\ heap[cfg.agents["g1"]].d["llm_config"] = result
  /\ result.t = "ref"
  /\ heap[result.n].d["model"] = PyTok("inline")
  /\ \A k \in DOMAIN cfg.llms : cfg.llms[k] # result.n

-----------------------------------------------------------------------------
(* Properties of the setters (specification SpecApi)                       *)

\* the maps of the kinds other than cls
OtherMaps(cls) == [k \in Kinds \ {cls} |-> MapOf(cfg, k)]

\* C24: set(kind, name, instance) is an unconditional upsert: right after it
\* get(kind, name) returns that instance, whether the name existed or not;
\* every other entry of the kind's map, the maps of the other kinds and the
\* fields of every instance are unchanged.
C24_SetIsUpsert ==
  [][\A cls \in Kinds : \A name \in SetNames(cls) :
       (pc = "api" /\ Len(op') = 4 /\ op'[1] = "set" /\ op'[2] = cls /\ op'[3] = name) =>
         /\ exc' = ""
         /\ DOMAIN MapOf(cfg, cls)' = DOMAIN MapOf(cfg, cls) \cup {name}
         /\ MapOf(cfg, cls)'[name] = op'[4]
         /\ GetConfig(Fresh, cls, PyTok(name))'.a = op'[4]
         /\ \A k \in DOMAIN MapOf(cfg, cls) \ {name} : MapOf(cfg, cls)'[k] = MapOf(cfg, cls)[k]
         /\ OtherMaps(cls)' = OtherMaps(cls)
         /\ \A a \in 1..Len(heap) : heap'[a] = heap[a]]_vars

\* a set call has put a new instance under a name while the map holds
\* another entry, which refers to an earlier instance
C24_Witness ==
  /\ Len(op) = 4 /\ op[1] = "set" /\ op[2] = "LLMConfig" /\ op[3] = "g1"
  /\ cfg.llms["g1"] = op[4]
  /\ heap[op[4]].d["api_key"] = PyTok("sk-set")
  /\ "llm" \in DOMAIN cfg.llms
  /\ cfg.llms["llm"] < op[4]

-----------------------------------------------------------------------------
(* Presence of the default groups (specification SpecApi)                  *)

\* every map of the aggregate has the default key of its kind
DefaultGroupsPresent == \A cls \in Kinds : DefaultKey(cls) \in DOMAIN MapOf(cfg, cls)

\* C25: after load_from_env or load_from_toml completes, each of the
\* aggregate's llms, memories and agents maps contains its default key.
C25_DefaultGroupPresentAfterLoad ==
  [][(pc = "api" /\ op' \in {<<"load_from_toml">>, <<"load_from_env">>} /\ exc' = "") =>
       DefaultGroupsPresent']_vars

\* the same for the load calls that write the aggregate (load_from_env and
\* load_from_toml of a document; load_from_toml(None) writes nothing) or that
\* start with the default groups present
C25_DocumentPresent ==
  [][(pc = "api" /\ op' \in {<<"load_from_toml">>, <<"load_from_env">>} /\ exc' = ""
        /\ (DefaultGroupsPresent \/ cfg' # cfg)) =>
       DefaultGroupsPresent']_vars

\* a default key that is missing is inserted by the first get of the kind,
\* with an instance of the declared defaults
C25_FirstGetInserts ==
  [][\A cls \in Kinds : \A name \in GetNames(cls) :
       (pc = "api" /\ op' = <<"get", cls, name>> /\ DefaultKey(cls) \notin DOMAIN MapOf(cfg, cls)
          /\ ~NameIn(name, MapOf(cfg, cls))) =>
         /\ DefaultKey(cls) \in DOMAIN MapOf(cfg, cls)'
         /\ result' = PyRef(MapOf(cfg, cls)'[DefaultKey(cls)])
         /\ heap'[result'.n] = [cls |-> cls, d |-> Defaults(cls)]]_vars

-----------------------------------------------------------------------------
(* Independence of the groups (specification SpecApi)                      *)

\* the state has the instance at address a and the step is not an
\* assignment to a field of that instance
NotAssignedTo(a) ==
  /\ a \in 1..Len(heap)
  /\ heap[a].cls \in Kinds
  /\ ~(Len(op') = 4 /\ op'[1] = "assign" /\ MapOf(cfg, op'[2])[op'[3]] = a)

\* the named groups a load_from_toml step has constructed are instances of
\* their own, none of them the default group of the map
NamedGroupsOwnInstances ==
  \A cls \in Kinds : \A k \in DOMAIN MapOf(cfg, cls)' \ {DefaultKey(cls)} :
    (op' = <<"load_from_toml">> /\ MapOf(cfg, cls)'[k] \notin 1..Len(heap)) =>
      /\ DefaultKey(cls) \in DOMAIN MapOf(cfg, cls)'
      /\ MapOf(cfg, cls)'[k] # MapOf(cfg, cls)'[DefaultKey(cls)]

\* C26: a named group is not live-linked to its default group: the loader
\* constructs it as an instance of its own, and afterwards no call (an
\* assignment to a field of another instance, the default group among them, a
\* load pass or a set call that replaces the default group) changes a field
\* of an instance other than the one assigned to; so a change of the default
\* group leaves the named group unchanged, and the reverse.
C26_NamedGroupNotLinked ==
  [][pc = "api" =>
       /\ NamedGroupsOwnInstances
       /\ \A a \in 1..Len(heap) : NotAssignedTo(a) => heap'[a] = heap[a]]_vars

\* the model field of the default LLM group has been assigned after the
\* document loader constructed the named group g1 from it: g1 keeps its value
C26_Witness ==
  /\ op = <<"assign", "LLMConfig", "llm", "model">>
  /\ "g1" \in DOMAIN cfg.llms
  /\ cfg.llms["g1"] # cfg.llms["llm"]
  /\ heap[cfg.llms["llm"]].d["model"] = PyTok("M")
  /\ heap[cfg.llms["g1"]].d["model"] = PyTok("B")
  /\ heap[cfg.llms["g1"]].d["api_key"] = PyTok("sk-doc")

-----------------------------------------------------------------------------
(* The document pass on an aggregate that already has groups               *)

\* the step is load_from_toml of the document d
LoadsDocument(d) ==
  /\ pc = "api"
  /\ op' = <<"load_from_toml">>
  /\ cfg' = AppConfig_load_from_toml(Fresh, d).cfg
  /\ heap' = AppConfig_load_from_toml(Fresh, d).heap

\* the group names the document loader of the kind produces from d: the
\* default key and the keys of the nested tables of the kind's section
\* (nothing for a None document, for which the loader is not called)
ProducedBy(cls, d) ==
  IF d.isnone THEN {}
  ELSE {DefaultKey(cls)} \cup GroupKeys(cls, GetSection(d, DefaultKey(cls)).tbl)

\* C27: load_from_toml updates and does not replace the aggregate's llms,
\* agents and memories maps: a group name that a map has before the call and
\* that the document loader of the kind does not produce is in the map
\* afterwards, with the same instance and the same field values.
C27_DocumentUpdatesMaps ==
  [][\A d \in ApiDocs : \A cls \in Kinds :
       LoadsDocument(d) =>
         \A k \in DOMAIN MapOf(cfg, cls) \ ProducedBy(cls, d) :
           /\ k \in DOMAIN MapOf(cfg, cls)'
           /\ MapOf(cfg, cls)'[k] = MapOf(cfg, cls)[k]
           /\ heap'[MapOf(cfg, cls)[k]] = heap[MapOf(cfg, cls)[k]]]_vars

\* a document without a named LLM group has been loaded into an aggregate
\* that held the group g1 a caller had set: g1 is still there, next to the
\* default group of the document
C27_Witness ==
  /\ op = <<"load_from_toml">>
  /\ exc = ""
  /\ "g1" \in DOMAIN cfg.llms /\ "llm" \in DOMAIN cfg.llms
  /\ heap[cfg.llms["g1"]].d["api_key"] = PyTok("sk-set")
  /\ cfg.llms["llm"] > cfg.llms["g1"]
  /\ "g1" \in DOMAIN cfg.memories
  /\ heap[cfg.memories["g1"]].d["base_url"] = PyTok("http://g1")

-----------------------------------------------------------------------------
(* Casts of the environment pass (specification Spec)                      *)

\* the fields of the domain kinds and of the aggregate whose declared type
\* is boolean or nullable boolean, as <<cls, f>>
BooleanFields ==
  {p \in UNION {{<<cls, f>> : f \in Fields(cls) \ EnvSkipped(cls)} : cls \in KindSet \cup {"AppConfig"}} :
     FieldType(p[1], p[2]) \in {"bool", "bool?"}}

\* the value the environment pass left in the field
LoadedField(cls, f) == IF cls = "AppConfig" THEN cfg.f[f] ELSE Resolved(cls)[f]

\* the string is "true" or "1" in any letter case
SaysTrue(v) == v.s \in {<<"true">>, <<"True">>, <<"TRUE">>, <<"tRuE">>, <<"1">>}

\* C28: for every field whose declared type is boolean or nullable boolean,
\* the environment pass sets the field to true when the non-empty string of
\* its variable is "true" or "1" in any letter case, and to false for any
\* other non-empty string.
C28_BooleanCast ==
  pc = "env_done" =>
    \A p \in BooleanFields :
      EnvHas(p[1], p[2]) =>
        LoadedField(p[1], p[2]) = PyBool(SaysTrue(environ[EnvName(p[1], p[2])]))

\* C28 for the fields declared bool (not nullable)
C28_PlainBooleanFields ==
  pc = "env_done" =>
    \A p \in {q \in BooleanFields : FieldType(q[1], q[2]) = "bool"} :
      EnvHas(p[1], p[2]) =>
        LoadedField(p[1], p[2]) = PyBool(SaysTrue(environ[EnvName(p[1], p[2])]))

\* a nullable boolean field is true after the environment pass for every
\* non-empty string of its variable
C28_NullableBooleanAlwaysTrue ==
  pc = "env_done" =>
    \A p \in {q \in BooleanFields : FieldType(q[1], q[2]) = "bool?"} :
      EnvHas(p[1], p[2]) => LoadedField(p[1], p[2]) = PyBool(TRUE)

\* the environment without the variables whose value is the empty string
NonEmptyEnv == [k \in {x \in DOMAIN environ : environ[x].s # <<>>} |-> environ[k]]

\* C29: a variable that is present with an empty string counts as not
\* present for every environment loader: the environment pass ends in the
\* state (fields of the five domain kinds and of the aggregate, warnings,
\* exception) in which it ends for the same environment without the empty
\* variables, so no empty string is cast.
C29_EmptyValueIsAbsent ==
  [][pc = "toml_done" =>
       /\ cfg' = LoadAppConfigEnv(World, NonEmptyEnv).cfg
       /\ heap' = LoadAppConfigEnv(World, NonEmptyEnv).heap
       /\ warns' = LoadAppConfigEnv(World, NonEmptyEnv).warns
       /\ exc' = LoadAppConfigEnv(World, NonEmptyEnv).exc]_vars

\* an environment pass has completed with an empty LLM_TIMEOUT and an empty
\* MAX_ITERATIONS among its variables: no cast has failed and both fields
\* hold their defaults
C29_Witness ==
  /\ pc = "env_done"
  /\ DOMAIN environ = {"LLM_TIMEOUT", "MAX_ITERATIONS"}
  /\ environ["LLM_TIMEOUT"] = PyStr(<<>>)
  /\ environ["MAX_ITERATIONS"] = PyStr(<<>>)
  /\ warns = <<>> \/ toml.state # "ok"
  /\ Resolved("LLMConfig")["timeout"] = FieldDefault("LLMConfig", "timeout")
  /\ cfg.f["max_iterations"] = FieldDefault("AppConfig", "max_iterations")

\* C30: the Agent environment loader never sets llm_config or memory_config:
\* whatever the environment holds, AGENT_LLM_CONFIG and AGENT_MEMORY_CONFIG
\* included, the Agent instance the environment pass returns has both fields
\* at their default, absent.
C30_AgentCrossReferencesNotFromEnv ==
  pc = "env_done" =>
    /\ Resolved("AgentConfig")["llm_config"] = PyNone
    /\ Resolved("AgentConfig")["memory_config"] = PyNone

\* an environment pass has completed with a non-empty AGENT_LLM_CONFIG and
\* the default Agent group has no LLM cross-reference
C30_Witness ==
  /\ pc = "env_done"
  /\ "AGENT_LLM_CONFIG" \in DOMAIN environ
  /\ environ["AGENT_LLM_CONFIG"] = PyTok("E")
  /\ Resolved("AgentConfig")["llm_config"] = PyNone

-----------------------------------------------------------------------------
(* Singletons, explicit mount path, embedding shim, core keys, named groups *)

SingletonClasses == {"SandboxConfig", "SecurityConfig"}

\* the live instances of a class
InstancesOf(cls) == {a \in DOMAIN heap : heap[a].cls = cls}

\* C31: Sandbox and Security are process-wide singletons: in every state of
\* the load sequence (construction, document load, environment load,
\* finalization) there is at most one live instance of each, it is the one
\* SingletonABCMeta registered, and the aggregate's sandbox and security
\* references point to it.
C31_Singletons ==
  /\ \A cls \in SingletonClasses :
       /\ Cardinality(InstancesOf(cls)) <= 1
       /\ InstancesOf(cls) = {singles[cls]}
  /\ cfg.sandbox = singles["SandboxConfig"]
  /\ cfg.security = singles["SecurityConfig"]

\* C31 (loaders): a document load or an environment load leaves the sandbox
\* and security references on the instances they pointed to before the load:
\* what the loaders return is the same instance, updated in place.
C31_LoadersReturnSameInstance ==
  [][(pc = "start" \/ pc = "toml_done") =>
       (/\ cfg.sandbox' = cfg.sandbox
        /\ cfg.security' = cfg.security
        /\ InstancesOf("SandboxConfig")' = InstancesOf("SandboxConfig")
        /\ InstancesOf("SecurityConfig")' = InstancesOf("SecurityConfig"))]_vars

\* the load has completed and its loaders changed a field of the Sandbox
\* instance the aggregate was constructed with, which is still the only one
C31_Witness ==
  /\ Loaded
  /\ cfg.sandbox = 1 /\ InstancesOf("SandboxConfig") = {1}
  /\ heap[1].d["timeout"] # FieldDefault("SandboxConfig", "timeout")

\* C32: if a load pass set workspace_mount_path (to a path, or to None) and
\* no rewrite rule is configured, the finalized workspace_mount_path is the
\* value the load passes gave it.
C32_ExplicitMountPathKept ==
  (Loaded /\ ~NeverSet("workspace_mount_path")
          /\ ~Truthy(TopPrecedence("workspace_mount_rewrite"))) =>
    cfg.f["workspace_mount_path"] = TopPrecedence("workspace_mount_path")

\* C32 (step): the finalization step itself leaves the field as it found it
C32_FinalizeLeavesMountPath ==
  [][(pc = "env_done" /\ pc' = "done" /\ ~NeverSet("workspace_mount_path")
        /\ ~Truthy(TopPrecedence("workspace_mount_rewrite")))
       => cfg.f["workspace_mount_path"]' = cfg.f["workspace_mount_path"]]_vars

\* a finalized load whose document gives the mount path "/mnt" and a base path
\* whose absolute form differs from it, with no rewrite rule
C32_Witness ==
  /\ Loaded
  /\ ~NeverSet("workspace_mount_path")
  /\ ~Truthy(TopPrecedence("workspace_mount_rewrite"))
  /\ TopPrecedence("workspace_mount_path") = PyStr(<<"/", "mnt">>)
  /\ cfg.f["workspace_mount_path"] = PyStr(<<"/", "mnt">>)
  /\ cfg.f["workspace_base"] # PyStr(<<"/", "mnt">>)

\* the same with the mount path set to None
C32_WitnessNone ==
  /\ Loaded
  /\ ~NeverSet("workspace_mount_path")
  /\ ~Truthy(TopPrecedence("workspace_mount_rewrite"))
  /\ cfg.f["workspace_mount_path"] = PyNone

\* C39: after the full load sequence of load_app_config has completed,
\* workspace_mount_path is never the UNDEFINED sentinel: it is a path or None,
\* for every document and environment input.
C39_MountPathDefined ==
  Loaded =>
    /\ cfg.f["workspace_mount_path"] # UNDEFINED
    /\ cfg.f["workspace_mount_path"].t \in {"str", "none"}

\* a load has completed in which no pass was given the field: it went into
\* finalization as the sentinel and came out as the absolute base path
C39_Witness ==
  /\ Loaded
  /\ NeverSet("workspace_mount_path")
  /\ TopPrecedence("workspace_mount_path") = UNDEFINED
  /\ cfg.f["workspace_mount_path"].t = "str"
  /\ cfg.f["workspace_mount_path"] # UNDEFINED

\* C33: in finalization the default Memory group's base_url is taken from the
\* default LLM group's legacy embedding_base_url only if base_url is not set
\* in the memory config; a base_url already set on the default Memory group
\* is kept.
C33_MemoryBaseUrlKept ==
  [][(pc = "fin" /\ op' = <<"finalize_config">> /\ exc' = ""
        /\ "llm" \in DOMAIN cfg.llms /\ "memory" \in DOMAIN cfg.memories) =>
       LET l == DefaultFields(cfg.llms, "llm")
           m == DefaultFields(cfg.memories, "memory")
           after == DefaultFields(cfg.memories, "memory")'
       IN after["base_url"] =
            IF m["base_url"] = PyNone /\ "embedding_base_url" \in DOMAIN l
            THEN l["embedding_base_url"]
            ELSE m["base_url"]]_vars

\* C33 where the default Memory group has no base_url: the legacy value is
\* taken when the default LLM group carries one
C33_UnsetBaseUrlTaken ==
  [][(pc = "fin" /\ op' = <<"finalize_config">> /\ exc' = ""
        /\ "llm" \in DOMAIN cfg.llms /\ "memory" \in DOMAIN cfg.memories
        /\ DefaultFields(cfg.memories, "memory")["base_url"] = PyNone) =>
       LET l == DefaultFields(cfg.llms, "llm")
           after == DefaultFields(cfg.memories, "memory")'
       IN after["base_url"] =
            IF "embedding_base_url" \in DOMAIN l THEN l["embedding_base_url"] ELSE PyNone]_vars

\* what the code does with a base_url that is set: whenever the default LLM
\* group carries embedding_base_url, a finalization puts it on the default
\* Memory group, whatever base_url that group had
C33_BaseUrlOverwritten ==
  [][(pc = "fin" /\ op' = <<"finalize_config">> /\ exc' = ""
        /\ "llm" \in DOMAIN cfg.llms /\ "memory" \in DOMAIN cfg.memories
        /\ "embedding_base_url" \in DOMAIN DefaultFields(cfg.llms, "llm")) =>
       DefaultFields(cfg.memories, "memory")'["base_url"] =
         DefaultFields(cfg.llms, "llm")["embedding_base_url"]]_vars

\* the keys of the document's core section that name no declared top-level
\* field of the aggregate
UndeclaredCoreKeys == DOMAIN CoreScalars \ Fields("AppConfig")

\* the document pass that starts here warns about each of the keys as an
\* unknown core key and stores none of them on the aggregate (a key stored
\* under the name of a method would shadow the method)
CoreKeysOnlyWarned(keys) ==
  /\ \A k \in keys : <<"unknown_core_key", k>> \in Range(warns')
  /\ \A k \in keys : k \notin DOMAIN cfg.f'

\* C34: when the document loader applies a core section, only keys that name
\* a declared top-level field of the aggregate are overwritten; every other
\* core key, one that names a method of the aggregate included, produces an
\* unknown-key warning and leaves the aggregate and its operations unchanged.
C34_OnlyDeclaredCoreKeysSet ==
  [][(pc = "start" /\ pc' = "toml_done" /\ HasCore) =>
       /\ CoreKeysOnlyWarned(UndeclaredCoreKeys)
       /\ \A f \in TopFields \ DOMAIN CoreScalars : cfg.f'[f] = cfg.f[f]]_vars

\* C34 for the core keys that name neither a field nor a method
C34_NonAttributeCoreKeys ==
  [][(pc = "start" /\ pc' = "toml_done" /\ HasCore) =>
       /\ CoreKeysOnlyWarned(UndeclaredCoreKeys \ Methods("AppConfig"))
       /\ \A f \in TopFields \ DOMAIN CoreScalars : cfg.f'[f] = cfg.f[f]]_vars

\* what the code does with a core key that names a method: the value is
\* stored on the aggregate under the method's name, without a warning
C34_MethodShadowed ==
  [][(pc = "start" /\ pc' = "toml_done" /\ HasCore) =>
       \A k \in UndeclaredCoreKeys \cap Methods("AppConfig") :
         /\ k \in DOMAIN cfg.f' /\ cfg.f'[k] = CoreScalars[k]
         /\ <<"unknown_core_key", k>> \notin Range(warns')]_vars

\* the named groups of the section of a kind in the document d
NamedGroups(cls, d) ==
  IF d.isnone THEN {} ELSE GroupKeys(cls, GetSection(d, DefaultKey(cls)).tbl)

\* the value the document d gives field f of its named group g of a kind: the
\* group's own entry, else the entry of the section (the document's default
\* group), else the declared default
DocGroupValue(cls, d, g, f) ==
  LET section == GetSection(d, DefaultKey(cls)).tbl
  IN IF f \in DOMAIN section[g].tbl THEN EntryVal(section[g].tbl[f])
     ELSE IF f \in DOMAIN NonDictFields(section) THEN NonDictFields(section)[f]
     ELSE FieldDefault(cls, f)

\* C35: a load_from_toml call whose document defines a named group replaces
\* the whole map entry of that name: afterwards the entry is an instance the
\* call built, its fields are exactly the document's (the document's default
\* group values overwritten by the group's own entries), and no field value
\* of the entry stored under that name before survives.
C35_NamedGroupReplaced ==
  [][\A d \in ApiDocs : \A cls \in Kinds :
       (LoadsDocument(d) /\ exc' = "") =>
         \A g \in NamedGroups(cls, d) :
           /\ g \in DOMAIN MapOf(cfg, cls)'
           /\ MapOf(cfg, cls)'[g] > Len(heap)
           /\ DOMAIN heap'[MapOf(cfg, cls)'[g]].d =
                Fields(cls) \cup DOMAIN GetSection(d, DefaultKey(cls)).tbl[g].tbl
           /\ \A f \in DOMAIN heap'[MapOf(cfg, cls)'[g]].d :
                heap'[MapOf(cfg, cls)'[g]].d[f] = DocGroupValue(cls, d, g, f)]_vars

\* a document with the LLM group g1 has been loaded after two set calls that
\* had stored instances with the key "sk-set": g1 is an instance of the load
\* with the document's model and the document default group's key, and the
\* instances of the set calls are in no entry of the map any more
C35_Witness ==
  /\ op = <<"load_from_toml">> /\ exc = "" /\ nops = 3
  /\ "g1" \in DOMAIN cfg.llms
  /\ heap[cfg.llms["g1"]].d["model"] = PyTok("B")
  /\ heap[cfg.llms["g1"]].d["api_key"] = PyTok("sk-doc")
  /\ \E a, b \in DOMAIN heap :
       /\ a < b /\ b < cfg.llms["g1"]
       /\ heap[a].cls = "LLMConfig" /\ heap[b].cls = "LLMConfig"
       /\ heap[a].d["api_key"] = PyTok("sk-set") /\ heap[b].d["api_key"] = PyTok("sk-set")
       /\ \A k \in DOMAIN cfg.llms : cfg.llms[k] \notin {a, b}

-----------------------------------------------------------------------------
(* Properties of concurrent readers (specification SpecGet)                *)

\* the call of reader r has returned the default group of its kind: it asked
\* for the default key, or for a name the map does not hold
GotDefaultGroup(r) ==
  /\ readers[r].at = "done"
  /\ ~(NameIn(readers[r].name, MapOf(cfg, readers[r].cls))
       /\ readers[r].name # PyTok(DefaultKey(readers[r].cls)))

\* C36: with no set call in progress, all concurrent readers of a kind that
\* get the default group obtain the same instance, under every interleaving
\* of their statements, also when the default group is missing from the map
\* and the first access has to synthesize it.
C36_ReadersShareDefaultGroup ==
  \A r1, r2 \in Readers :
    (GotDefaultGroup(r1) /\ GotDefaultGroup(r2) /\ readers[r1].cls = readers[r2].cls)
      => readers[r1].got = readers[r2].got

\* C36 where the map has its default group before any reader tests it: every
\* reader that gets the default group obtains the instance the map holds
C36_PresentDefaultShared ==
  \A r \in Readers :
    (GotDefaultGroup(r) /\ \A q \in Readers : readers[q].made = 0)
      => readers[r].got = MapOf(cfg, readers[r].cls)[DefaultKey(readers[r].cls)]

\* what the code does when the default group is missing: two readers have
\* each synthesized an instance and returned their own
C36_TwoDefaultGroups ==
  \E r1, r2 \in Readers :
    /\ GotDefaultGroup(r1) /\ GotDefaultGroup(r2)
    /\ readers[r1].cls = readers[r2].cls
    /\ readers[r1].got = readers[r1].made /\ readers[r2].got = readers[r2].made
    /\ readers[r1].got # readers[r2].got

-----------------------------------------------------------------------------
(* Properties of the websocket endpoints (specifications SpecWs, SpecWsFair) *)

\* C37: by the time the fire-hose handler has added its listener to the
\* broker, the listener has been told (after_create_conversation) of every
\* conversation that exists at that moment, under every interleaving with
\* conversations created while the handler pages through the existing ones.
C37_FireHoseToldOfAll ==
  [][\A h \in Handlers :
       (handlers[h].at = "broker_add_listener" /\ handlers'[h].at = "while")
         => DOMAIN conversations' \subseteq handlers'[h].told]_vars

\* C37 (pages): when the handler goes on to the next page, the listener has
\* been told of every conversation of the page it fetched, or the task that
\* tells it is still pending after the timeout
C37_PageTold ==
  \A h \in Handlers :
    handlers[h].at = "next_page" => handlers[h].page \subseteq handlers[h].told \cup handlers[h].pending

\* what the code allows: the listener is on the broker and there is a
\* conversation it has not been told of and will not be told of
C37_ConversationMissed ==
  \E h \in Handlers :
    /\ handlers[h].kind = "fire_hose" /\ handlers[h].at = "while"
    /\ h \in broker_listeners
    /\ \E c \in DOMAIN conversations : c \notin handlers[h].told \cup handlers[h].pending

\* the receive loop of handler h has ended: by a disconnect, by an error or
\* by the loop condition
LoopEnded(h) == handlers[h].at \in {"except", "finally"}

\* C38: for the two conversation websockets and the fire-hose websocket, the
\* listener registered on connect is eventually removed when the loop of the
\* handler ends, by a client disconnect or by any error raised while
\* receiving a message or creating a task; once a handler has returned, its
\* listener is registered neither on a conversation nor on the broker.
C38_ListenerRemoved ==
  /\ [](\A h \in Handlers : handlers[h].at = "returned" => ~Registered(h))
  /\ \A h \in Handlers : LoopEnded(h) ~> ~Registered(h)

\* C38 (registration): a listener is registered exactly while its handler is
\* between add_listener and the end of the finally clause
C38_RegisteredWhileInLoop ==
  \A h \in Handlers :
    Registered(h) <=>
      handlers[h].at \in {"while", "receive_json", "create_task", "sleep", "except", "finally"}

\* a handler of a conversation websocket has returned with an error that was
\* raised in its loop after it had registered its listener, and the listener
\* is registered no more
C38_Witness ==
  \E h \in Handlers :
    /\ handlers[h].kind = "connect"
    /\ handlers[h].at = "returned"
    /\ handlers[h].raised = "Error"
    /\ handlers[h].listener_id = h
    /\ ~Registered(h)

=============================================================================
